---------------------------- MODULE Spec2Model ----------------------------
(***************************************************************************)
(* A model of the uavcan-llr transport layer: the Slicer (outbound         *)
(* fragmentation), the tail-byte codec, the transfer state machine, the    *)
(* pieces storage and the Assembler (process_frame / pop).                 *)
(*                                                                         *)
(* The Assembler is modelled from uavcan-llr/src/assembler/ (assembler.rs, *)
(* storage.rs, transfer.rs); pop, which that version does not have, is     *)
(* modelled from src/assembler.rs (the only pop of the repository), read   *)
(* over the session table: a session in state Done is a Transfer::Done.    *)
(*                                                                         *)
(* Option<T> is modelled as a sequence: <<>> is None, <<x>> is Some(x).    *)
(***************************************************************************)
EXTENDS Integers, Sequences, FiniteSets, TLC

(***************************************************************************)
(* Compile-time parameters.  The fuzzer instantiates                       *)
(* Assembler::<8, 32, 32, 10>; the pool and table sizes are scaled down.   *)
(***************************************************************************)
MTU == 8

TRANSFER_LIFETIME == 10

MAX_PIECES == 3

MAX_TRANSFERS == 2

\* How far `used` may fall below the number of Filled slots before the
\* model stops following a behaviour (the counter drifts without bound).
MaxUsedDrift == 1

\* How many lifetimes the caller's clock runs for.
MaxEra == 1

\* The longest payload the sender slices.
MaxPayloadLen == 15

\* How many frames of any sort precede the sender's transfers, and how many
\* transfers the sender sends one after the other.
MaxJunk == 3

MaxSent == 2

\* The longest payload the Slicer is given on its own.
MaxSliceLen == 27

\* The largest frame count the tail-byte generator is made for.
MaxFrameCount == 6

None == <<>>

Some(x) == <<x>>

IsSome(o) == Len(o) = 1

Unwrap(o) == o[1]

(***************************************************************************)
(* Bytes and bits.                                                         *)
(***************************************************************************)
Pow2(k) == 2 ^ k

Bit(x, k) == (x \div Pow2(k)) % 2

FlipBit(x, k) == IF Bit(x, k) = 1 THEN x - Pow2(k) ELSE x + Pow2(k)

RECURSIVE XorBits(_, _, _)
XorBits(a, b, n) ==
    IF n = 0 THEN 0
    ELSE ((a + b) % 2) + 2 * XorBits(a \div 2, b \div 2, n - 1)

Xor8(a, b) == XorBits(a, b, 8)

Zeros(n) == [i \in 1..n |-> 0]

(***************************************************************************)
(* CRC-16/CCITT-FALSE (crc_any::CRCu16::crc16ccitt_false): polynomial      *)
(* 0x1021, initial value 0xFFFF, no reflection, no final xor.              *)
(***************************************************************************)
CrcShift(crc) ==
    IF crc >= 32768
    THEN FlipBit(FlipBit(FlipBit((crc * 2) % 65536, 12), 5), 0)
    ELSE crc * 2

CrcByte(crc, b) ==
    LET x0 == Xor8(crc \div 256, b) * 256 + (crc % 256)
    IN  CrcShift(CrcShift(CrcShift(CrcShift(
        CrcShift(CrcShift(CrcShift(CrcShift(x0))))))))

\* CRCu16::digest: the 16-bit register after bytes i.. of the data
RECURSIVE CrcDigest(_, _, _)
CrcDigest(crc, bytes, i) ==
    IF crc \in 0..65535 /\ i <= Len(bytes)
    THEN CrcDigest(CrcByte(crc, bytes[i]), bytes, i + 1)
    ELSE crc

Crc16(bytes) == CrcDigest(65535, bytes, 1)

\* u16::to_be_bytes
\* to_le_bytes in place of to_be_bytes
ToLeBytes(x) == <<x % 256, x \div 256>>

ToBeBytes(x) == <<x \div 256, x % 256>>

(***************************************************************************)
(* Priority (types.rs).  The discriminant is the numeric value; Ord is the *)
(* reverse of the numeric order.                                           *)
(***************************************************************************)
Exceptional == 0

Nominal == 4

Optional == 7

High == 3

Low == 5

\* Ord::cmp of u8
CmpU8(a, b) == IF a < b THEN "Less" ELSE IF a = b THEN "Equal" ELSE "Greater"

\* Ordering::reverse
Reverse(ordering) ==
    CASE ordering = "Less" -> "Greater"
      [] ordering = "Equal" -> "Equal"
      [] ordering = "Greater" -> "Less"

\* The comparison without its reverse()
PriorityCmpForward(self, other) == CmpU8(self, other)

\* Ord::cmp of Priority
PriorityCmp(self, other) == Reverse(CmpU8(self, other))

\* Ord::cmp(a, b) == Greater
PriorityGt(a, b) == a < b

(***************************************************************************)
(* Tail byte (tailbyte.rs).                                                *)
(***************************************************************************)
KindOfBits(v) ==
    CASE v % 8 = 0 -> "MiddleT0"
      [] v % 8 = 1 -> "MiddleT1"
      [] v % 8 = 2 -> "EndT0"
      [] v % 8 = 3 -> "EndT1"
      [] v % 8 = 4 -> "MultiFrameV0"
      [] v % 8 = 5 -> "MultiFrame"
      [] v % 8 = 6 -> "SingleFrameV0"
      [] v % 8 = 7 -> "SingleFrame"

KindBits(kind) ==
    CASE kind = "MiddleT0" -> 0
      [] kind = "MiddleT1" -> 1
      [] kind = "EndT0" -> 2
      [] kind = "EndT1" -> 3
      [] kind = "MultiFrameV0" -> 4
      [] kind = "MultiFrame" -> 5
      [] kind = "SingleFrameV0" -> 6
      [] kind = "SingleFrame" -> 7

\* impl From<u8> for TailByte
TailByteFrom(byte) == [kind |-> KindOfBits(byte \div 32), id |-> byte % 32]

\* TailByte::as_byte
AsByte(tb) == KindBits(tb.kind) * 32 + tb.id


(***************************************************************************)
(* Transfer state machine (assembler/transfer.rs).                         *)
(***************************************************************************)
States == {"Empty", "AssemblingT1", "AssemblingT0", "Done", "Failure"}

Assembling == {"AssemblingT1", "AssemblingT0"}

Idle == {"Empty", "Done", "Failure"}

\* TransferMachine::reset
TransferMachineReset == [state |-> "Empty", transfer_id |-> None]

\* The inner match with middle frames of any length let through.
AdvanceKindShortMiddle(kind, state, payload_kind) ==
    CASE kind = "SingleFrame" /\ state \in Idle -> <<"Done", "Push">>
      [] kind = "SingleFrame" /\ state \in Assembling -> <<"Failure", "Drop">>
      [] kind = "MultiFrame" /\ state \in Idle -> <<"AssemblingT1", "Push">>
      [] kind = "MultiFrame" /\ state \in Assembling -> <<"Failure", "Drop">>
      [] kind = "MiddleT0" /\ state = "AssemblingT1" ->
            IF payload_kind \in {"LessThanMTU", "ExactlyMTU"}
            THEN <<"AssemblingT0", "Push">>
            ELSE <<"Failure", "Drop">>
      [] kind = "EndT0" /\ state = "AssemblingT1" ->
            IF payload_kind \in {"LessThanMTU", "ExactlyMTU"}
            THEN <<"Done", "CheckCrcAndPush">>
            ELSE <<"Failure", "Drop">>
      [] kind \in {"MiddleT0", "EndT0"} /\ state # "AssemblingT1" ->
            <<"Failure", "Drop">>
      [] kind = "MiddleT1" /\ state = "AssemblingT0" ->
            IF payload_kind \in {"LessThanMTU", "ExactlyMTU"}
            THEN <<"AssemblingT1", "Push">>
            ELSE <<"Failure", "Drop">>
      [] kind = "EndT1" /\ state = "AssemblingT0" ->
            IF payload_kind \in {"LessThanMTU", "ExactlyMTU"}
            THEN <<"Done", "CheckCrcAndPush">>
            ELSE <<"Failure", "Drop">>
      [] kind \in {"MiddleT1", "EndT1"} /\ state # "AssemblingT0" ->
            <<"Failure", "Drop">>
      [] kind \in {"SingleFrameV0", "MultiFrameV0"} -> <<"Failure", "Ignore">>

\* The (next_state, output) pair of the inner match on (tail_byte.kind, state).
AdvanceKind(kind, state, payload_kind) ==
    CASE kind = "SingleFrame" /\ state \in Idle -> <<"Done", "Push">>
      [] kind = "SingleFrame" /\ state \in Assembling -> <<"Failure", "Drop">>
      [] kind = "MultiFrame" /\ state \in Idle -> <<"AssemblingT1", "Push">>
      [] kind = "MultiFrame" /\ state \in Assembling -> <<"Failure", "Drop">>
      [] kind = "MiddleT0" /\ state = "AssemblingT1" ->
            IF payload_kind = "ExactlyMTU" THEN <<"AssemblingT0", "Push">>
            ELSE <<"Failure", "Drop">>
      [] kind = "EndT0" /\ state = "AssemblingT1" ->
            IF payload_kind \in {"LessThanMTU", "ExactlyMTU"}
            THEN <<"Done", "CheckCrcAndPush">>
            ELSE <<"Failure", "Drop">>
      [] kind \in {"MiddleT0", "EndT0"} /\ state # "AssemblingT1" ->
            <<"Failure", "Drop">>
      [] kind = "MiddleT1" /\ state = "AssemblingT0" ->
            IF payload_kind = "ExactlyMTU" THEN <<"AssemblingT1", "Push">>
            ELSE <<"Failure", "Drop">>
      [] kind = "EndT1" /\ state = "AssemblingT0" ->
            IF payload_kind \in {"LessThanMTU", "ExactlyMTU"}
            THEN <<"Done", "CheckCrcAndPush">>
            ELSE <<"Failure", "Drop">>
      [] kind \in {"MiddleT1", "EndT1"} /\ state # "AssemblingT0" ->
            <<"Failure", "Drop">>
      [] kind \in {"SingleFrameV0", "MultiFrameV0"} -> <<"Failure", "Ignore">>

\* A machine that drops the frame of an ongoing transfer whose transfer id
\* is not the one of the frame before
AdvanceSameId(tm, payload_kind, tail_byte) ==
    IF tail_byte = None
    THEN LET r == CASE tm.state \in {"Empty", "Failure"} -> <<"Failure", "Ignore">>
                    [] tm.state \in Assembling -> <<"Failure", "Drop">>
                    [] tm.state = "Done" -> <<"Done", "Ignore">>
         IN  [tm |-> [tm EXCEPT !.state = r[1]], output |-> r[2]]
    ELSE LET tb == Unwrap(tail_byte)
             r == IF tm.state \in Assembling /\ tm.transfer_id # Some(tb.id)
                  THEN <<"Failure", "Drop">>
                  ELSE AdvanceKind(tb.kind, tm.state, payload_kind)
         IN  [tm |-> [state |-> r[1], transfer_id |-> Some(tb.id)],
              output |-> r[2]]

\* TransferMachine::advance: the machine after the frame, and the output.
Advance(tm, payload_kind, tail_byte) ==
    IF tail_byte = None
    THEN LET r == CASE tm.state \in {"Empty", "Failure"} -> <<"Failure", "Ignore">>
                    [] tm.state \in Assembling -> <<"Failure", "Drop">>
                    [] tm.state = "Done" -> <<"Done", "Ignore">>
         IN  [tm |-> [tm EXCEPT !.state = r[1]], output |-> r[2]]
    ELSE LET tb == Unwrap(tail_byte)
             r == AdvanceKind(tb.kind, tm.state, payload_kind)
         IN  [tm |-> [state |-> r[1], transfer_id |-> Some(tb.id)],
              output |-> r[2]]

(***************************************************************************)
(* Pieces storage (assembler/storage.rs).  A slot is Piece::Empty or       *)
(* Piece::Filled(data, next); `used` is a u16.                             *)
(***************************************************************************)
PieceIdxs == 0..(MAX_PIECES - 1)

PieceEmpty == [filled |-> FALSE, data |-> <<>>, next |-> 0]

PieceFilled(data, next) == [filled |-> TRUE, data |-> data, next |-> next]

\* PiecesStorage::new
StorageNew == [items |-> [i \in PieceIdxs |-> PieceEmpty], used |-> 0]

\* u16 arithmetic of `used` (wrapping, as in a build without overflow checks)
Inc16(u) == (u + 1) % 65536

Dec16(u) == (u + 65535) % 65536

\* PiecesStorage::find_empty_slot: the first Empty slot
FindEmptySlot(items) ==
    LET empty == {i \in PieceIdxs : ~items[i].filled}
    IN  IF empty = {} THEN None
        ELSE Some(CHOOSE i \in empty : \A j \in empty : i <= j)

\* PiecesStorage::push
StoragePush(st, data) ==
    LET slot == FindEmptySlot(st.items)
    IN  IF slot = None THEN [ok |-> FALSE, st |-> st, idx |-> 0]
        ELSE [ok  |-> TRUE,
              st  |-> [items |-> [st.items EXCEPT ![Unwrap(slot)] =
                                     PieceFilled(data, Unwrap(slot))],
                       used  |-> Inc16(st.used)],
              idx |-> Unwrap(slot)]

\* push_after without the link from after_piece_idx to the new slot
StoragePushAfterUnlinked(st, data, after_piece_idx) ==
    LET slot == FindEmptySlot(st.items)
    IN  IF slot = None THEN [ok |-> FALSE, st |-> st, idx |-> 0]
        ELSE IF ~st.items[after_piece_idx].filled
        THEN [ok |-> FALSE, st |-> st, idx |-> 0]
        ELSE [ok  |-> TRUE,
              st  |-> [items |-> [st.items EXCEPT
                                     ![Unwrap(slot)] =
                                         PieceFilled(data, Unwrap(slot))],
                       used  |-> Inc16(st.used)],
              idx |-> Unwrap(slot)]

\* PiecesStorage::push_after
StoragePushAfter(st, data, after_piece_idx) ==
    LET slot == FindEmptySlot(st.items)
    IN  IF slot = None THEN [ok |-> FALSE, st |-> st, idx |-> 0]
        ELSE IF ~st.items[after_piece_idx].filled
        THEN [ok |-> FALSE, st |-> st, idx |-> 0]
        ELSE [ok  |-> TRUE,
              st  |-> [items |-> [st.items EXCEPT
                                     ![after_piece_idx].next = Unwrap(slot),
                                     ![Unwrap(slot)] =
                                         PieceFilled(data, Unwrap(slot))],
                       used  |-> Inc16(st.used)],
              idx |-> Unwrap(slot)]

(***************************************************************************)
(* PiecesStorage::remove_all.  The loop body is the assignment             *)
(*     self.items[idx] = match &self.items[idx] { ... idx = *next;         *)
(*                                                 Piece::Empty }          *)
(* Rust evaluates the assigned value before the assignee place, so the     *)
(* index of the slot that is written is read after the match arm has       *)
(* advanced idx to next: the slot written is the NEXT one.  The arms that  *)
(* break write nothing.  Each visit of a Filled slot decrements `used`.    *)
(* underflow is TRUE when `used` was decremented at 0.                     *)
(***************************************************************************)
RECURSIVE RemoveAllLoop(_, _, _, _, _)
RemoveAllLoop(items, used, idx, removed, underflow) ==
    IF ~items[idx].filled
    THEN [items |-> items, used |-> used, removed |-> removed,
          underflow |-> underflow]
    ELSE LET next == items[idx].next
             used2 == Dec16(used)
             under2 == underflow \/ used = 0
         IN  IF idx = next
             THEN [items |-> items, used |-> used2, removed |-> removed + 1,
                   underflow |-> under2]
             ELSE RemoveAllLoop([items EXCEPT ![next] = PieceEmpty],
                                used2, next, removed + 1, under2)

StorageRemoveAll(st, first_piece_idx) ==
    LET r == RemoveAllLoop(st.items, st.used, first_piece_idx, 0, FALSE)
    IN  [st |-> [items |-> r.items, used |-> r.used],
         removed |-> r.removed, underflow |-> r.underflow]

\* PiecesStorage::len
StorageLen(st) == st.used

\* PiecesStorage::traverse / PiecesIter::next: the (data, is_last) pairs
RECURSIVE TraverseFrom(_, _, _)
TraverseFrom(items, idx, fuel) ==
    IF fuel = 0 \/ ~items[idx].filled THEN <<>>
    ELSE IF items[idx].next = idx THEN << <<items[idx].data, TRUE>> >>
    ELSE << <<items[idx].data, FALSE>> >>
         \o TraverseFrom(items, items[idx].next, fuel - 1)

Traverse(items, first_piece_idx) ==
    TraverseFrom(items, first_piece_idx, MAX_PIECES + 1)


(***************************************************************************)
(* Assembler (assembler/assembler.rs).  The session table is an            *)
(* FnvIndexMap, which keeps insertion order: it is modelled as the         *)
(* sequence of its entries, each carrying its key.                         *)
(***************************************************************************)
\* impl From<CanId> for TransfersMapKey
KeyOf(can_id) == [kind |-> can_id.transfer_kind, source |-> can_id.source_node_id]

\* A session created at Nominal priority whatever the frame's priority
TransferNewNominal(key, priority, sequence_number, time_now) ==
    [key                    |-> key,
     state                  |-> TransferMachineReset.state,
     transfer_id            |-> TransferMachineReset.transfer_id,
     first_piece_idx        |-> None,
     last_piece_idx         |-> None,
     last_piece_len         |-> 0,
     priority               |-> Nominal,
     sequence_number        |-> sequence_number,
     last_changed_timestamp |-> time_now]

\* Transfer::new, stored under its key
TransferNew(key, priority, sequence_number, time_now) ==
    [key                    |-> key,
     state                  |-> TransferMachineReset.state,
     transfer_id            |-> TransferMachineReset.transfer_id,
     first_piece_idx        |-> None,
     last_piece_idx         |-> None,
     last_piece_len         |-> 0,
     priority               |-> priority,
     sequence_number        |-> sequence_number,
     last_changed_timestamp |-> time_now]

\* Assembler::new
AssemblerNew ==
    [transfers |-> <<>>, storage |-> StorageNew, latest_sequence_number |-> 0]

\* FnvIndexMap::contains_key / get_mut: the position of the key, 0 if absent
IndexOfKey(table, key) ==
    IF \E i \in 1..Len(table) : table[i].key = key
    THEN CHOOSE i \in 1..Len(table) : table[i].key = key
    ELSE 0

\* A counter that does not advance
WrappingAdd1Stuck(x) == x

\* i16::wrapping_add(1)
WrappingAdd1(x) == IF x = 32767 THEN 0 - 32768 ELSE x + 1

\* i16::wrapping_sub
WrappingSub(a, b) == ((a - b + 32768) % 65536) - 32768

\* A derivation that takes a frame of fewer than four bytes for one that
\* holds the tail byte only
PayloadKindOfLong(payload) ==
    CASE Len(payload) = 0 -> "Invalid"
      [] Len(payload) > MTU -> "Invalid"
      [] Len(payload) >= 1 /\ Len(payload) < 4 -> "Empty"
      [] Len(payload) >= 4 /\ Len(payload) < MTU -> "LessThanMTU"
      [] Len(payload) = MTU -> "ExactlyMTU"

\* The (payload_kind, tail_byte) pair drive_state_machine derives from the
\* raw frame length and last byte.
PayloadKindOf(payload) ==
    CASE Len(payload) = 0 -> "Invalid"
      [] Len(payload) > MTU -> "Invalid"
      [] Len(payload) = 1 -> "Empty"
      [] Len(payload) > 1 /\ Len(payload) < MTU -> "LessThanMTU"
      [] Len(payload) = MTU -> "ExactlyMTU"

TailByteOf(payload) ==
    IF Len(payload) >= 1 /\ Len(payload) <= MTU
    THEN Some(TailByteFrom(payload[Len(payload)]))
    ELSE None

(***************************************************************************)
(* Assembler::drive_state_machine.  payload_owned is created zeroed and    *)
(* nothing is copied into it; last_piece_len is set to payload.len()       *)
(* before the machine is advanced; CheckCrcAndPush only traverses (and     *)
(* prints) the chain before pushing; Drop leaves both indices in place.    *)
(* panic: first_piece_idx.unwrap() on None.  underflow: see remove_all.    *)
(***************************************************************************)
DriveStateMachine(storage, transfer, payload) ==
    LET payload_owned == Zeros(MTU - 1)
        payload_kind == PayloadKindOf(payload)
        tail_byte == TailByteOf(payload)
        t1 == IF payload_kind \in {"LessThanMTU", "ExactlyMTU"}
              THEN [transfer EXCEPT !.last_piece_len = Len(payload)]
              ELSE transfer
        adv == Advance([state |-> t1.state, transfer_id |-> t1.transfer_id],
                       payload_kind, tail_byte)
        t2 == [t1 EXCEPT !.state = adv.tm.state,
                         !.transfer_id = adv.tm.transfer_id]
        output == adv.output
        done(st, t, ok, panic, underflow) ==
            [storage |-> st, transfer |-> t, output |-> output, ok |-> ok,
             panic |-> panic, underflow |-> underflow]
    IN  CASE output = "Ignore" -> done(storage, t2, TRUE, FALSE, FALSE)
          [] output \in {"Push", "CheckCrcAndPush"} ->
                IF output = "CheckCrcAndPush" /\ t2.first_piece_idx = None
                THEN done(storage, t2, FALSE, TRUE, FALSE)
                ELSE IF IsSome(t2.last_piece_idx)
                THEN LET r == StoragePushAfter(storage, payload_owned,
                                               Unwrap(t2.last_piece_idx))
                     IN  IF r.ok
                         THEN done(r.st,
                                   [t2 EXCEPT !.last_piece_idx = Some(r.idx)],
                                   TRUE, FALSE, FALSE)
                         ELSE done(storage, t2, FALSE, FALSE, FALSE)
                ELSE LET r == StoragePush(storage, payload_owned)
                     IN  IF r.ok
                         THEN done(r.st,
                                   [t2 EXCEPT !.first_piece_idx = Some(r.idx),
                                              !.last_piece_idx = Some(r.idx)],
                                   TRUE, FALSE, FALSE)
                         ELSE done(storage, t2, FALSE, FALSE, FALSE)
          [] output = "Drop" ->
                IF IsSome(t2.first_piece_idx)
                THEN LET r == StorageRemoveAll(storage, Unwrap(t2.first_piece_idx))
                     IN  done(r.st, t2, TRUE, FALSE, r.underflow)
                ELSE done(storage, t2, TRUE, FALSE, FALSE)

\* A sweep that fails every session that has timed out
RemoveOutdatedTransfersEager(a, time_now) ==
    [a EXCEPT !.transfers =
        [i \in 1..Len(a.transfers) |->
            IF time_now - a.transfers[i].last_changed_timestamp
                  > TRANSFER_LIFETIME
            THEN [a.transfers[i] EXCEPT !.state = "Failure"]
            ELSE a.transfers[i]]]

\* Assembler::remove_outdated_transfers: the body is commented out.
RemoveOutdatedTransfers(a, time_now) == a

\* The earlier Assembler::remove_outdated_transfers (src/assembler.rs of the
\* crate), with TransferMachine::fail_and_clean_storage: the sessions are
\* visited in table order; one that has timed out is failed and its chain
\* handed to remove_all; the loop ends once a call removed a piece.
RECURSIVE SweepFrom(_, _, _)
SweepFrom(a, time_now, i) ==
    IF i > Len(a.transfers) THEN a
    ELSE IF time_now - a.transfers[i].last_changed_timestamp > TRANSFER_LIFETIME
    THEN LET t == a.transfers[i]
             r == IF IsSome(t.first_piece_idx)
                  THEN StorageRemoveAll(a.storage, Unwrap(t.first_piece_idx))
                  ELSE [st |-> a.storage, removed |-> 0, underflow |-> FALSE]
             a2 == [a EXCEPT !.transfers[i].state = "Failure",
                             !.storage = r.st]
         IN  IF r.removed >= 1 THEN a2 ELSE SweepFrom(a2, time_now, i + 1)
    ELSE SweepFrom(a, time_now, i + 1)

EarlierRemoveOutdatedTransfers(a, time_now) == SweepFrom(a, time_now, 1)

\* process_frame without the bound on the session table
ProcessFrameUnbounded(a, id, payload, time_now) ==
    LET key == KeyOf(id)
        present == IndexOfKey(a.transfers, key) # 0
        a2 == IF present THEN a
              ELSE [a EXCEPT
                      !.transfers = Append(a.transfers,
                          TransferNew(key, id.priority,
                                      a.latest_sequence_number, time_now)),
                      !.latest_sequence_number =
                          WrappingAdd1(a.latest_sequence_number)]
        i == IndexOfKey(a2.transfers, key)
        r == DriveStateMachine(a2.storage, a2.transfers[i], payload)
    IN  [a |-> [a2 EXCEPT !.transfers[i] = r.transfer, !.storage = r.storage],
         outcome |-> r.output, ok |-> r.ok,
         panic |-> r.panic, underflow |-> r.underflow]

(***************************************************************************)
(* Assembler::process_frame.  outcome is "TableFull" when the frame is     *)
(* dropped at admission, else the output of the state machine.             *)
(***************************************************************************)
ProcessFrame(a, id, payload, time_now) ==
    LET a1 == IF StorageLen(a.storage) = MAX_PIECES
              THEN RemoveOutdatedTransfers(a, time_now)
              ELSE a
        key == KeyOf(id)
        present == IndexOfKey(a1.transfers, key) # 0
    IN  IF ~present /\ Len(a1.transfers) >= MAX_TRANSFERS
        THEN [a |-> a1, outcome |-> "TableFull", ok |-> TRUE,
              panic |-> FALSE, underflow |-> FALSE]
        ELSE LET a2 == IF present THEN a1
                       ELSE [a1 EXCEPT
                               !.transfers = Append(a1.transfers,
                                   TransferNew(key, id.priority,
                                               a1.latest_sequence_number, time_now)),
                               !.latest_sequence_number =
                                   WrappingAdd1(a1.latest_sequence_number)]
                 i == IndexOfKey(a2.transfers, key)
                 r == DriveStateMachine(a2.storage, a2.transfers[i], payload)
             IN  [a |-> [a2 EXCEPT !.transfers[i] = r.transfer,
                                   !.storage = r.storage],
                  outcome |-> r.output, ok |-> r.ok,
                  panic |-> r.panic, underflow |-> r.underflow]


(***************************************************************************)
(* Assembler::pop (src/assembler.rs), with find_max_priority_done_transfer.*)
(* Transfer::Done(can_id, t) is a session in state Done: can_id is its key *)
(* and priority, t.first_piece its first_piece_idx, t.last_piece_bytes_used*)
(* its last_piece_len and t.transfer_seq its sequence_number.  A Done      *)
(* session without a chain yields an empty payload.                        *)
(***************************************************************************)
RECURSIVE FindMaxFrom(_, _, _)
FindMaxFrom(table, i, max_transfer) ==
    IF i > Len(table) THEN max_transfer
    ELSE IF table[i].state # "Done" THEN FindMaxFrom(table, i + 1, max_transfer)
    ELSE IF max_transfer = None THEN FindMaxFrom(table, i + 1, Some(i))
    ELSE LET m == table[Unwrap(max_transfer)]
             t == table[i]
         IN  IF PriorityGt(t.priority, m.priority)
             THEN FindMaxFrom(table, i + 1, Some(i))
             ELSE IF t.priority = m.priority
                     /\ WrappingSub(m.sequence_number, t.sequence_number) < 0
             THEN FindMaxFrom(table, i + 1, Some(i))
             ELSE FindMaxFrom(table, i + 1, max_transfer)

\* Assembler::find_max_priority_done_transfer
FindMaxPriorityDoneTransfer(table) == FindMaxFrom(table, 1, None)

\* The copy loop of pop.  copy_from_slice panics unless both slices have the
\* same length: the last piece is copied whole into last_piece_bytes_used
\* bytes of the buffer.
RECURSIVE PopCopy(_, _, _, _, _)
PopCopy(items, piece_id, last_piece_bytes_used, buf, fuel) ==
    IF ~items[piece_id].filled
    THEN [buf |-> buf, got_empty_piece |-> TRUE, panic |-> FALSE]
    ELSE IF items[piece_id].next # piece_id /\ fuel > 0
    THEN PopCopy(items, items[piece_id].next, last_piece_bytes_used,
                 buf \o items[piece_id].data, fuel - 1)
    ELSE IF last_piece_bytes_used > 0
    THEN IF last_piece_bytes_used = Len(items[piece_id].data)
         THEN [buf |-> buf \o items[piece_id].data,
               got_empty_piece |-> FALSE, panic |-> FALSE]
         ELSE [buf |-> buf, got_empty_piece |-> FALSE, panic |-> TRUE]
    ELSE [buf |-> buf, got_empty_piece |-> FALSE, panic |-> FALSE]

\* Assembler::pop: the returned value, and what the call did on the way.
\* Neither the session table nor the storage is written.  The Assembler of
\* assembler/assembler.rs has no counters field: whether the call counted a
\* pop_got_empty_piece is kept with the call's result.
Pop(a) ==
    LET found == FindMaxPriorityDoneTransfer(a.transfers)
    IN  IF found = None
        THEN [ret |-> None, got_empty_piece |-> FALSE, panic |-> FALSE]
        ELSE LET t == a.transfers[Unwrap(found)]
                 can_id == [source_node_id |-> t.key.source,
                            transfer_kind  |-> t.key.kind,
                            priority       |-> t.priority]
                 c == IF t.first_piece_idx = None
                      THEN [buf |-> <<>>, got_empty_piece |-> FALSE,
                            panic |-> FALSE]
                      ELSE PopCopy(a.storage.items, Unwrap(t.first_piece_idx),
                                   t.last_piece_len, <<>>, MAX_PIECES)
             IN  [ret |-> Some([can_id |-> can_id, payload |-> c.buf]),
                  got_empty_piece |-> c.got_empty_piece, panic |-> c.panic]

(***************************************************************************)
(* Tail byte generator (tailbyte.rs) and Slicer (slicer.rs).               *)
(***************************************************************************)
\* new_multi_frame that takes one frame for a multi-frame transfer
NewMultiFrameFromOne(id, frame_count) ==
    [tail_byte     |-> [kind |-> IF frame_count > 0 THEN "MultiFrame"
                                 ELSE "SingleFrame",
                        id   |-> id],
     current_frame |-> 0,
     frame_count   |-> frame_count]

\* TailByte::new_multi_frame
NewMultiFrame(id, frame_count) ==
    [tail_byte     |-> [kind |-> IF frame_count > 1 THEN "MultiFrame"
                                 ELSE "SingleFrame",
                        id   |-> id],
     current_frame |-> 0,
     frame_count   |-> frame_count]

\* TailByteIter::next that does not alternate the toggle of middle frames
TailByteIterNextNoToggle(it) ==
    IF it.current_frame = it.frame_count
    THEN [it |-> it, item |-> None]
    ELSE LET kind == it.tail_byte.kind
             kind2 ==
                IF it.current_frame = it.frame_count - 1 /\ kind # "SingleFrame"
                THEN (IF kind = "MiddleT0" THEN "EndT1" ELSE "EndT0")
                ELSE IF it.current_frame # 0 THEN "MiddleT0"
                ELSE kind
             tb == [it.tail_byte EXCEPT !.kind = kind2]
         IN  [it   |-> [it EXCEPT !.tail_byte = tb,
                                  !.current_frame = it.current_frame + 1],
              item |-> Some(tb)]

\* TailByteIter::next: the iterator after the call, and the item
TailByteIterNext(it) ==
    IF it.current_frame = it.frame_count
    THEN [it |-> it, item |-> None]
    ELSE LET kind == it.tail_byte.kind
             kind2 ==
                IF it.current_frame = it.frame_count - 1 /\ kind # "SingleFrame"
                THEN (IF kind = "MiddleT0" THEN "EndT1" ELSE "EndT0")
                ELSE IF it.current_frame = 1 THEN "MiddleT0"
                ELSE IF it.current_frame # 0
                THEN (IF kind = "MiddleT0" THEN "MiddleT1" ELSE "MiddleT0")
                ELSE kind
             tb == [it.tail_byte EXCEPT !.kind = kind2]
         IN  [it   |-> [it EXCEPT !.tail_byte = tb,
                                  !.current_frame = it.current_frame + 1],
              item |-> Some(tb)]

\* frame_count that forgets the two CRC bytes
FrameCountNoCrc(payload_len, mtu) ==
    IF payload_len < MTU THEN 1
    ELSE (payload_len \div (mtu - 1))
         + (IF payload_len % (mtu - 1) # 0 THEN 1 ELSE 0)

\* frame_count::<MTU>(payload_len, mtu)
FrameCount(payload_len, mtu) ==
    IF payload_len < MTU THEN 1
    ELSE LET len2 == payload_len + 2
         IN  (len2 \div (mtu - 1)) + (IF len2 % (mtu - 1) # 0 THEN 1 ELSE 0)

\* Slicer::new.  chunks is what payload.chunks(MTU_M1) has yet to yield.
SlicerNew(payload, transfer_id) ==
    LET single == Len(payload) <= 7
    IN  [chunks         |-> payload,
         crc            |-> IF single THEN <<0, 0>>
                            ELSE ToBeBytes(Crc16(payload)),
         crc_bytes_left |-> IF single THEN 0 ELSE 2,
         tail_bytes     |-> NewMultiFrame(transfer_id,
                                          FrameCount(Len(payload), MTU))]

\* Chunks::next
ChunksNext(rest) ==
    IF rest = <<>> THEN [rest |-> rest, item |-> None]
    ELSE LET n == IF Len(rest) < MTU - 1 THEN Len(rest) ELSE MTU - 1
         IN  [rest |-> SubSeq(rest, n + 1, Len(rest)),
              item |-> Some(SubSeq(rest, 1, n))]

\* RefSlicer::next: the slicer after the call, the item (chunk, trailer),
\* and whether the call hit unreachable!()
RefSlicerNext(sl) ==
    LET tn == TailByteIterNext(sl.tail_bytes)
        cn == ChunksNext(sl.chunks)
        s1 == [sl EXCEPT !.tail_bytes = tn.it]
        s2 == [s1 EXCEPT !.chunks = cn.rest]
        tail_byte == AsByte(Unwrap(tn.item))
        chunk == IF cn.item = None THEN <<>> ELSE Unwrap(cn.item)
        yield(left, trailer) ==
            [sl |-> [s2 EXCEPT !.crc_bytes_left = left],
             item |-> Some(<<chunk, trailer>>), panic |-> FALSE]
        unreachable == [sl |-> s2, item |-> None, panic |-> TRUE]
        left == sl.crc_bytes_left
    IN  IF tn.item = None THEN [sl |-> s1, item |-> None, panic |-> FALSE]
        ELSE IF cn.item = None \/ Len(chunk) <= MTU - 1 - 2
        THEN (IF left = 2 THEN yield(0, <<sl.crc[1], sl.crc[2], tail_byte>>)
              ELSE IF left = 1 THEN yield(0, <<sl.crc[2], tail_byte>>)
              ELSE unreachable)
        ELSE IF Len(chunk) = MTU - 1 - 1
        THEN (IF left = 2 THEN yield(1, <<sl.crc[1], tail_byte>>)
              ELSE IF left = 1 THEN yield(0, <<sl.crc[2], tail_byte>>)
              ELSE unreachable)
        ELSE IF Len(chunk) = MTU - 1 THEN yield(left, <<tail_byte>>)
        ELSE unreachable

\* OwnedSlicer::next: the item is the frame, chunk and trailer joined
OwnedSlicerNext(sl) ==
    LET r == RefSlicerNext(sl)
    IN  [sl    |-> r.sl,
         item  |-> IF r.item = None THEN None
                   ELSE Some(Unwrap(r.item)[1] \o Unwrap(r.item)[2]),
         panic |-> r.panic]

(***************************************************************************)
(* The state: one Assembler, the caller's clock, a record of the last call *)
(* and what it returned, and the sender that feeds sliced transfers.       *)
(***************************************************************************)
VARIABLES
    transfers,               \* Assembler.transfers
    storage,                 \* Assembler.storage
    latest_sequence_number,  \* Assembler.latest_sequence_number
    panicked,                \* the program has panicked: it is gone
    now,                     \* the caller's clock, passed as time_now
    last,                    \* the last call: op, key, outcome, ret
    drv                      \* the sender: its payload and its Slicer

vars == <<transfers, storage, latest_sequence_number, panicked, now, last, drv>>

asm == <<transfers, storage, latest_sequence_number>>

Cur == [transfers |-> transfers, storage |-> storage,
        latest_sequence_number |-> latest_sequence_number]

FilledCount(items) == Cardinality({i \in PieceIdxs : items[i].filled})

\* How far `used` has fallen below the number of Filled slots (mod 2^16)
UsedDrift(st) == (FilledCount(st.items) + 65536 - st.used) % 65536

(***************************************************************************)
(* Inputs of the Assembler.                                                *)
(***************************************************************************)
FillByte == 170

MessageKind(subject_id, is_anonymous) ==
    [tag |-> "Message", subject_id |-> subject_id, is_anonymous |-> is_anonymous]

\* CanId::new_message_kind
NewMessageKind(source_node_id, subject_id, is_anonymous, priority) ==
    [source_node_id |-> source_node_id,
     transfer_kind  |-> MessageKind(subject_id, is_anonymous),
     priority       |-> priority]

(***************************************************************************)
(* CanId and its u32 form (types.rs).  TryFrom answers Ok(id) as           *)
(* [ok |-> TRUE, id |-> id] and Err(e) as [ok |-> FALSE, err |-> e].       *)
(***************************************************************************)
ServiceKind(destination_node_id, service_id, is_request) ==
    [tag |-> "Service", destination_node_id |-> destination_node_id,
     service_id |-> service_id, is_request |-> is_request]

\* CanId::new_service_kind
NewServiceKind(source_id, destination_id, service_id, is_request, priority) ==
    [source_node_id |-> source_id,
     transfer_kind  |-> ServiceKind(destination_id, service_id, is_request),
     priority       |-> priority]

\* A u32 is the pair <<high half, low half>> of its 16-bit halves.
U32(n) == <<n \div 65536, n % 65536>>

\* value & (1 << k) != 0
U32Bit(value, k) ==
    IF k >= 16 THEN Bit(value[1], k - 16) = 1 ELSE Bit(value[2], k) = 1

\* a | b on u32
RECURSIVE OrBits(_, _, _)
OrBits(a, b, n) ==
    IF n = 0 THEN 0
    ELSE (IF a % 2 = 1 \/ b % 2 = 1 THEN 1 ELSE 0)
         + 2 * OrBits(a \div 2, b \div 2, n - 1)

Or32(a, b) == <<OrBits(a[1], b[1], 16), OrBits(a[2], b[2], 16)>>

\* (value >> shift) & mask, the mask being 2^k - 1 and at most 16 bits wide
ShrAnd(value, shift, mask) ==
    IF shift >= 16 THEN (value[1] \div Pow2(shift - 16)) % (mask + 1)
    ELSE ((value[2] \div Pow2(shift))
          + (value[1] % (mask + 1)) * Pow2(16 - shift)) % (mask + 1)

\* (x as u32) << shift, for the fields and shifts of ser and into: no bit
\* is shifted out
Shl32(x, shift) == U32(x * Pow2(shift))

BoolAsU32(b) == IF b THEN 1 ELSE 0

\* Priority::new
PriorityNew(priority) == IF priority \in 0..7 THEN Some(priority) ELSE None

Ok(id) == [ok |-> TRUE, id |-> id]

Err(e) == [ok |-> FALSE, err |-> e]

\* try_from that does not look at bit 7 of a message id
CanIdTryFromNoReserved7(value) ==
    IF ShrAnd(value, 29, 7) # 0 THEN Err("NoneZeroHighBits")
    ELSE IF U32Bit(value, 23) THEN Err("WrongReservedBit")
    ELSE LET source_node_id == ShrAnd(value, 0, 127)
             is_service == U32Bit(value, 25)
             priority == Unwrap(PriorityNew(ShrAnd(value, 26, 7)))
         IN  IF is_service
             THEN Ok(NewServiceKind(source_node_id, ShrAnd(value, 7, 127),
                                    ShrAnd(value, 14, 511),
                                    U32Bit(value, 24), priority))
             ELSE Ok(NewMessageKind(source_node_id, ShrAnd(value, 8, 8191),
                                    U32Bit(value, 24), priority))

\* impl TryFrom<u32> for CanId
CanIdTryFrom(value) ==
    IF ShrAnd(value, 29, 7) # 0 THEN Err("NoneZeroHighBits")
    ELSE IF U32Bit(value, 23) THEN Err("WrongReservedBit")
    ELSE LET source_node_id == ShrAnd(value, 0, 127)
             is_service == U32Bit(value, 25)
             priority == Unwrap(PriorityNew(ShrAnd(value, 26, 7)))
         IN  IF is_service
             THEN Ok(NewServiceKind(source_node_id, ShrAnd(value, 7, 127),
                                    ShrAnd(value, 14, 511),
                                    U32Bit(value, 24), priority))
             ELSE IF U32Bit(value, 7) THEN Err("WrongReservedBit")
             ELSE Ok(NewMessageKind(source_node_id, ShrAnd(value, 8, 8191),
                                    U32Bit(value, 24), priority))

\* ser that shifts the service id one bit too far
TransferKindSerShifted(kind) ==
    IF kind.tag = "Message"
    THEN Or32(Shl32(kind.subject_id, 8), Shl32(BoolAsU32(kind.is_anonymous), 24))
    ELSE Or32(Or32(Or32(Shl32(kind.destination_node_id, 7),
                        Shl32(kind.service_id, 15)),
                   Shl32(BoolAsU32(kind.is_request), 24)),
              Shl32(1, 25))

\* TransferKind::ser
TransferKindSer(kind) ==
    IF kind.tag = "Message"
    THEN Or32(Shl32(kind.subject_id, 8), Shl32(BoolAsU32(kind.is_anonymous), 24))
    ELSE Or32(Or32(Or32(Shl32(kind.destination_node_id, 7),
                        Shl32(kind.service_id, 14)),
                   Shl32(BoolAsU32(kind.is_request), 24)),
              Shl32(1, 25))

\* impl Into<u32> for CanId
CanIdInto(id) ==
    Or32(Or32(Shl32(id.priority, 26), TransferKindSer(id.transfer_kind)),
         U32(id.source_node_id))

\* A frame of len bytes whose last byte is the tail byte of the kind and id
MkFrame(len, kind, id) ==
    [i \in 1..len |-> IF i = len THEN AsByte([kind |-> kind, id |-> id])
                      ELSE FillByte]

SingleFrame7 == MkFrame(MTU - 1, "SingleFrame", 0)

MultiFrame8 == MkFrame(MTU, "MultiFrame", 0)

\* The frames of the first source: an empty frame, a single frame, and the
\* start, middle and end of a multi-frame transfer.
Frames ==
    {<<>>, SingleFrame7, MultiFrame8,
     MkFrame(MTU, "MiddleT0", 0),
     MkFrame(MTU - 1, "EndT0", 0)}

\* One source more than the table can hold.  Source 1 sends every frame at
\* two priorities; the others send at one priority, the last at the lowest.
Traffic ==
    {<<NewMessageKind(1, 8, FALSE, p), f>> :
        p \in {Nominal, Exceptional}, f \in Frames}
    \cup {<<NewMessageKind(s, 8, FALSE, Nominal), f>> :
             s \in 2..MAX_TRANSFERS, f \in {SingleFrame7, MultiFrame8}}
    \cup {<<NewMessageKind(MAX_TRANSFERS + 1, 8, FALSE, Optional), SingleFrame7>>}

\* The record of a call.  prev is what the call before returned when both
\* are calls of pop.
NoCall == [op |-> "new", key |-> None, outcome |-> "", ok |-> TRUE,
           ret |-> None, prev |-> None, got_empty_piece |-> FALSE]

NoDriver == [phase |-> "none"]

(***************************************************************************)
(* Actions.                                                                *)
(***************************************************************************)
Init ==
    /\ transfers = AssemblerNew.transfers
    /\ storage = AssemblerNew.storage
    /\ latest_sequence_number = AssemblerNew.latest_sequence_number
    /\ panicked = FALSE
    /\ now = 0
    /\ last = NoCall
    /\ drv = NoDriver

\* A panic ends the program; the Assembler is no more.
Panic(op, key, outcome) ==
    /\ panicked' = TRUE
    /\ last' = [NoCall EXCEPT !.op = op, !.key = key, !.outcome = outcome]
    /\ transfers' = <<>>
    /\ storage' = StorageNew
    /\ latest_sequence_number' = 0

\* A call process_frame(id, payload, time_now).  Decrementing `used` at 0
\* panics in a build with overflow checks and wraps in one without.
ProcessFrameCall(id, payload, time_now) ==
    \E r \in {ProcessFrame(Cur, id, payload, time_now)} :
        /\ ~panicked
        /\ \E overflow_checks \in BOOLEAN :
              IF r.panic \/ (r.underflow /\ overflow_checks)
              THEN Panic("process_frame", Some(KeyOf(id)), r.outcome)
              ELSE /\ r.underflow \/ ~overflow_checks
                   /\ UsedDrift(r.a.storage) <= MaxUsedDrift
                   /\ transfers' = r.a.transfers
                   /\ storage' = r.a.storage
                   /\ latest_sequence_number' = r.a.latest_sequence_number
                   /\ panicked' = FALSE
                   /\ last' = [NoCall EXCEPT !.op = "process_frame",
                                             !.key = Some(KeyOf(id)),
                                             !.outcome = r.outcome,
                                             !.ok = r.ok]

\* A call pop(assemble_buf), the buffer being large enough.
PopCall ==
    \E r \in {Pop(Cur)} :
        /\ ~panicked
        /\ IF r.panic
           THEN Panic("pop", None, "")
           ELSE /\ last' = [NoCall EXCEPT !.op = "pop", !.ret = r.ret,
                                          !.prev = IF last.op = "pop"
                                                   THEN last.ret ELSE None,
                                          !.got_empty_piece = r.got_empty_piece]
                /\ UNCHANGED <<asm, panicked>>

\* The caller's clock passes the lifetime of a transfer.
Tick ==
    /\ ~panicked
    /\ now < MaxEra * (TRANSFER_LIFETIME + 1)
    /\ now' = now + TRANSFER_LIFETIME + 1
    /\ UNCHANGED <<asm, panicked, last, drv>>

(***************************************************************************)
(* Spec: frames of several sources, in any order, and pops.                *)
(***************************************************************************)
ProcessFrameStep ==
    /\ \E t \in Traffic : ProcessFrameCall(t[1], t[2], now)
    /\ UNCHANGED <<now, drv>>

PopStep == PopCall /\ UNCHANGED <<now, drv>>

Next == ProcessFrameStep \/ PopStep

Spec == Init /\ [][Next]_vars

(***************************************************************************)
(* A sender: it slices payloads with the Slicer and feeds the frames, in   *)
(* order, to process_frame under one CanId.                                *)
(***************************************************************************)
\* The payload of a length: the bytes 0, 1, 2, ... or all zeros
PayloadOf(len, counting) == [i \in 1..len |-> IF counting THEN (i - 1) % 256 ELSE 0]

Payloads == {PayloadOf(n, c) : n \in 0..MaxPayloadLen, c \in BOOLEAN}

TransferIdMax == 31

TransferIds == {0, TransferIdMax}

SenderIds == {NewMessageKind(1, 8, FALSE, Nominal),
              NewMessageKind(2, 9, TRUE, Exceptional)}

\* A bit of the two CRC bytes flipped on the way, or none
Flips == {None} \cup {Some(b) : b \in 0..15}

FlipCrc(crc, flip) ==
    IF flip = None THEN crc
    ELSE IF Unwrap(flip) < 8
    THEN <<crc[1], FlipBit(crc[2], Unwrap(flip))>>
    ELSE <<FlipBit(crc[1], Unwrap(flip) - 8), crc[2]>>

SenderIdle ==
    [phase |-> "idle", can_id |-> NewMessageKind(1, 8, FALSE, Nominal),
     payload |-> <<>>, flip |-> None, slicer |-> None,
     sent |-> 0, junk |-> 0, err |-> FALSE]

InitSender ==
    /\ transfers = AssemblerNew.transfers
    /\ storage = AssemblerNew.storage
    /\ latest_sequence_number = AssemblerNew.latest_sequence_number
    /\ panicked = FALSE
    /\ now = 0
    /\ last = NoCall
    /\ drv = SenderIdle

\* Slicer::new(payload, transfer_id).frames_owned()
StartTransfer(payloads, ids, flips) ==
    /\ ~panicked
    /\ drv.phase = "idle"
    /\ \E payload \in payloads, id \in ids, transfer_id \in TransferIds,
          flip \in flips :
          /\ flip = None \/ Len(payload) > 7
          /\ \E sl \in {SlicerNew(payload, transfer_id)} :
                 drv' = [drv EXCEPT
                           !.phase = "sending", !.can_id = id,
                           !.payload = payload, !.flip = flip, !.err = FALSE,
                           !.slicer = Some([sl EXCEPT !.crc = FlipCrc(sl.crc, flip)])]
    /\ last' = [NoCall EXCEPT !.op = "slice"]
    /\ UNCHANGED <<asm, panicked, now>>

\* One turn of `for frame in slicer { assembler.process_frame(id, &frame, now) }`
SendFrame ==
    /\ ~panicked
    /\ drv.phase = "sending"
    /\ \E r \in {OwnedSlicerNext(Unwrap(drv.slicer))} :
           IF r.panic
           THEN Panic("slice", None, "") /\ UNCHANGED drv
           ELSE IF r.item = None
           THEN /\ drv' = [drv EXCEPT !.phase = "idle", !.slicer = None,
                                      !.sent = drv.sent + 1]
                /\ last' = [NoCall EXCEPT !.op = "sent"]
                /\ UNCHANGED <<asm, panicked>>
           ELSE /\ ProcessFrameCall(drv.can_id, Unwrap(r.item), now)
                /\ drv' = [drv EXCEPT !.slicer = Some(r.sl),
                                      !.err = drv.err \/ ~last'.ok]
    /\ UNCHANGED now

\* The reader pops once the sender has fed a transfer
SenderPop ==
    /\ drv.phase = "idle"
    /\ drv.sent >= 1
    /\ PopCall
    /\ UNCHANGED <<now, drv>>

(***************************************************************************)
(* SpecRoundTrip: one sliced transfer into a fresh Assembler, then pops.   *)
(***************************************************************************)
StartOne == drv.sent = 0 /\ StartTransfer(Payloads, SenderIds, Flips)

RoundTripNext == StartOne \/ SendFrame \/ SenderPop

SpecRoundTrip == InitSender /\ [][RoundTripNext]_vars

(***************************************************************************)
(* SpecRecovery: frames of any sort for a key, then two sliced transfers   *)
(* for the same key.                                                       *)
(***************************************************************************)
JunkFrames ==
    {<<>>,
     MkFrame(MTU + 1, "SingleFrame", 0),
     MkFrame(MTU - 1, "SingleFrameV0", 0),
     MultiFrame8,
     MkFrame(MTU, "MiddleT0", 0),
     MkFrame(MTU - 1, "EndT0", 0)}

RecoveryPayloads == {PayloadOf(n, TRUE) : n \in {MTU - 1, MTU, 2 * MTU - 2}}

JunkStep ==
    /\ drv.phase = "idle"
    /\ drv.sent = 0
    /\ drv.junk < MaxJunk
    /\ \E f \in JunkFrames : ProcessFrameCall(SenderIdle.can_id, f, now)
    /\ drv' = [drv EXCEPT !.junk = drv.junk + 1]
    /\ UNCHANGED now

StartAgain ==
    /\ drv.sent < MaxSent
    /\ StartTransfer(RecoveryPayloads, {SenderIdle.can_id}, {None})

RecoveryNext == JunkStep \/ StartAgain \/ SendFrame

SpecRecovery == InitSender /\ [][RecoveryNext]_vars

(***************************************************************************)
(* SpecTimeout: frames arrive, the clock passes the lifetime of a          *)
(* transfer, and from then on frames of the last source keep arriving.     *)
(***************************************************************************)
TimeoutTraffic ==
    {<<NewMessageKind(1, 8, FALSE, Nominal), f>> :
        f \in {SingleFrame7, MultiFrame8, MkFrame(MTU, "MiddleT0", 0)}}
    \cup {<<NewMessageKind(s, 8, FALSE, Nominal), f>> :
             s \in 2..MAX_TRANSFERS, f \in {SingleFrame7, MultiFrame8}}

NewcomerId == NewMessageKind(MAX_TRANSFERS + 1, 8, FALSE, Optional)

InitTimeout ==
    /\ transfers = AssemblerNew.transfers
    /\ storage = AssemblerNew.storage
    /\ latest_sequence_number = AssemblerNew.latest_sequence_number
    /\ panicked = FALSE
    /\ now = 0
    /\ last = NoCall
    /\ drv = [phase |-> "arrivals", n |-> 0]

EarlyFrameStep ==
    /\ now = 0
    /\ \E t \in TimeoutTraffic \cup {<<NewcomerId, SingleFrame7>>} :
          ProcessFrameCall(t[1], t[2], now)
    /\ UNCHANGED <<now, drv>>

\* One more frame of the last source; n is the parity of their number.
NewcomerStep ==
    /\ now > 0
    /\ ProcessFrameCall(NewcomerId, SingleFrame7, now)
    /\ drv' = [drv EXCEPT !.n = 1 - drv.n]
    /\ UNCHANGED now

TimeoutNext == EarlyFrameStep \/ Tick \/ NewcomerStep

\* The clock does not stop and the frames of the last source keep arriving.
SpecTimeout ==
    InitTimeout /\ [][TimeoutNext]_vars /\ WF_vars(Tick) /\ WF_vars(NewcomerStep)

(***************************************************************************)
(* SpecSlicer: a payload is sliced and the frames are drawn one by one,    *)
(* as tests::check_slicer does.                                            *)
(***************************************************************************)
SlicePayloads == {PayloadOf(n, c) : n \in 0..MaxSliceLen, c \in BOOLEAN}

\* A payload and a transfer id are at hand
InitSlicer ==
    /\ transfers = AssemblerNew.transfers
    /\ storage = AssemblerNew.storage
    /\ latest_sequence_number = AssemblerNew.latest_sequence_number
    /\ panicked = FALSE
    /\ now = 0
    /\ last = NoCall
    /\ drv \in {[phase       |-> "payload",
                 payload     |-> payload,
                 transfer_id |-> transfer_id,
                 slicer      |-> None,
                 frames      |-> <<>>] :
                payload \in SlicePayloads, transfer_id \in TransferIds}

\* Slicer::new(&payload, transfer_id).frames_owned()
SliceStart ==
    /\ drv.phase = "payload"
    /\ drv' = [drv EXCEPT !.phase = "slicing",
                          !.slicer = SlicerNew(drv.payload, drv.transfer_id)]
    /\ UNCHANGED <<asm, panicked, now, last>>

\* slicer.next() that yields a frame
SliceFrame ==
    /\ ~panicked
    /\ drv.phase = "slicing"
    /\ \E r \in {OwnedSlicerNext(drv.slicer)} :
          /\ ~r.panic
          /\ r.item # None
          /\ drv' = [drv EXCEPT !.slicer = r.sl,
                                !.frames = Append(drv.frames, Unwrap(r.item))]
    /\ UNCHANGED <<asm, panicked, now, last>>

\* slicer.next() that returns None
SliceEnd ==
    /\ ~panicked
    /\ drv.phase = "slicing"
    /\ \E r \in {OwnedSlicerNext(drv.slicer)} :
          /\ ~r.panic
          /\ r.item = None
          /\ drv' = [drv EXCEPT !.slicer = r.sl, !.phase = "sliced"]
    /\ UNCHANGED <<asm, panicked, now, last>>

\* slicer.next() that reaches unreachable!()
SlicePanic ==
    /\ ~panicked
    /\ drv.phase = "slicing"
    /\ OwnedSlicerNext(drv.slicer).panic
    /\ Panic("slice", None, "")
    /\ UNCHANGED <<now, drv>>

SlicerNext == SliceStart \/ SliceFrame \/ SliceEnd \/ SlicePanic

SpecSlicer == InitSlicer /\ [][SlicerNext]_vars


(***************************************************************************)
(* SpecTailByte: a tail-byte generator is made for a frame count and a     *)
(* transfer id and drawn until it returns None, as tests::check_tailbyte   *)
(* does.                                                                   *)
(***************************************************************************)
InitTailByte ==
    /\ transfers = AssemblerNew.transfers
    /\ storage = AssemblerNew.storage
    /\ latest_sequence_number = AssemblerNew.latest_sequence_number
    /\ panicked = FALSE
    /\ now = 0
    /\ last = NoCall
    /\ drv \in {[phase       |-> "count",
                 frame_count |-> n,
                 transfer_id |-> id,
                 tail_bytes  |-> None,
                 out         |-> <<>>] :
                n \in 0..MaxFrameCount, id \in 0..TransferIdMax}

\* TailByte::new_multi_frame(transfer_id, frame_count)
TailStart ==
    /\ drv.phase = "count"
    /\ drv' = [drv EXCEPT !.phase = "tail",
                          !.tail_bytes = NewMultiFrame(drv.transfer_id,
                                                       drv.frame_count)]
    /\ UNCHANGED <<asm, panicked, now, last>>

\* multi.next() that yields a tail byte
TailNext ==
    /\ drv.phase = "tail"
    /\ \E r \in {TailByteIterNext(drv.tail_bytes)} :
          /\ r.item # None
          /\ drv' = [drv EXCEPT !.tail_bytes = r.it,
                                !.out = Append(drv.out, Unwrap(r.item))]
    /\ UNCHANGED <<asm, panicked, now, last>>

\* multi.next() that returns None
TailEnd ==
    /\ drv.phase = "tail"
    /\ \E r \in {TailByteIterNext(drv.tail_bytes)} :
          /\ r.item = None
          /\ drv' = [drv EXCEPT !.tail_bytes = r.it, !.phase = "tailed"]
    /\ UNCHANGED <<asm, panicked, now, last>>

TailByteNext == TailStart \/ TailNext \/ TailEnd

SpecTailByte == InitTailByte /\ [][TailByteNext]_vars


(***************************************************************************)
(* SpecCanId: u32 values are decoded, and structured ids are encoded and   *)
(* decoded again, as tests::check_transfer_id does.                        *)
(***************************************************************************)
\* u32 values: every combination of bits 29..31, three priorities, the
\* kind, bits 24 and 23, a few settings of bits 7..22, and a few source ids
CanIdValues ==
    {<<high * Pow2(13) + priority * Pow2(10) + kind * Pow2(9) + b24 * Pow2(8)
          + b23 * Pow2(7) + (mid \div 512),
       (mid % 512) * Pow2(7) + source>> :
       high \in 0..7, priority \in {Exceptional, Nominal, Optional},
       kind \in 0..1, b24 \in 0..1, b23 \in 0..1,
       mid \in {0, 1, 2, 16, Pow2(15), Pow2(16) - 1},
       source \in {0, 7, 127}}

\* Structured ids with in-range fields, of both kinds and every priority
CanIds ==
    {NewMessageKind(source, subject_id, is_anonymous, priority) :
        source \in {0, 7, 127}, subject_id \in {0, 8, 8191},
        is_anonymous \in BOOLEAN, priority \in Exceptional..Optional}
    \cup
    {NewServiceKind(source, destination, service_id, is_request, priority) :
        source \in {7, 127}, destination \in {0, 7, 127},
        service_id \in {0, 511}, is_request \in BOOLEAN,
        priority \in Exceptional..Optional}

InitCanId ==
    /\ transfers = AssemblerNew.transfers
    /\ storage = AssemblerNew.storage
    /\ latest_sequence_number = AssemblerNew.latest_sequence_number
    /\ panicked = FALSE
    /\ now = 0
    /\ last = NoCall
    /\ drv \in {[phase |-> "value", value |-> v] : v \in CanIdValues}
               \cup {[phase |-> "id", id |-> id] : id \in CanIds}

\* CanId::try_from(value)
DecodeValue ==
    /\ drv.phase = "value"
    /\ drv' = [phase |-> "decoded", value |-> drv.value,
               result |-> CanIdTryFrom(drv.value)]
    /\ UNCHANGED <<asm, panicked, now, last>>

\* let value: u32 = id.into()
EncodeId ==
    /\ drv.phase = "id"
    /\ drv' = [phase |-> "encoded", id |-> drv.id, value |-> CanIdInto(drv.id)]
    /\ UNCHANGED <<asm, panicked, now, last>>

\* CanId::try_from(value) of an encoded id
DecodeEncoded ==
    /\ drv.phase = "encoded"
    /\ drv' = [phase |-> "returned", id |-> drv.id, value |-> drv.value,
               result |-> CanIdTryFrom(drv.value)]
    /\ UNCHANGED <<asm, panicked, now, last>>

CanIdNext == DecodeValue \/ EncodeId \/ DecodeEncoded

SpecCanId == InitCanId /\ [][CanIdNext]_vars


(***************************************************************************)
(* Priority comparison on its own: a pair of priorities is drawn and       *)
(* compared with Ord::cmp, which the operators <, > of Priority go through.*)
(***************************************************************************)
InitPriority ==
    /\ transfers = AssemblerNew.transfers
    /\ storage = AssemblerNew.storage
    /\ latest_sequence_number = AssemblerNew.latest_sequence_number
    /\ panicked = FALSE
    /\ now = 0
    /\ last = NoCall
    /\ drv \in {[phase |-> "pair", p |-> p, q |-> q] :
                   p \in Exceptional..Optional, q \in Exceptional..Optional}

\* p.cmp(&q)
ComparePriorities ==
    /\ drv.phase = "pair"
    /\ drv' = [phase |-> "compared", p |-> drv.p, q |-> drv.q,
               ordering |-> PriorityCmp(drv.p, drv.q)]
    /\ UNCHANGED <<asm, panicked, now, last>>

SpecPriority == InitPriority /\ [][ComparePriorities]_vars


(***************************************************************************)
(* The transfer machine on its own: a machine in any state is given one    *)
(* payload kind and one tail byte, absent or of any kind.                  *)
(***************************************************************************)
PayloadKinds == {"Empty", "LessThanMTU", "ExactlyMTU", "Invalid"}

MachineTailBytes ==
    {None} \cup {Some(TailByteFrom(bits * 32 + id)) :
                    bits \in 0..7, id \in TransferIds}

InitMachine ==
    /\ transfers = AssemblerNew.transfers
    /\ storage = AssemblerNew.storage
    /\ latest_sequence_number = AssemblerNew.latest_sequence_number
    /\ panicked = FALSE
    /\ now = 0
    /\ last = NoCall
    /\ drv \in {[phase |-> "machine",
                 tm |-> [state |-> state, transfer_id |-> transfer_id],
                 payload_kind |-> payload_kind, tail_byte |-> tail_byte] :
                   state \in States, transfer_id \in {None, Some(0)},
                   payload_kind \in PayloadKinds,
                   tail_byte \in MachineTailBytes}

\* tm.advance(payload_kind, tail_byte)
AdvanceCall ==
    /\ drv.phase = "machine"
    /\ drv' = [phase |-> "advanced", tm |-> drv.tm,
               payload_kind |-> drv.payload_kind, tail_byte |-> drv.tail_byte,
               result |-> Advance(drv.tm, drv.payload_kind, drv.tail_byte)]
    /\ UNCHANGED <<asm, panicked, now, last>>

SpecMachine == InitMachine /\ [][AdvanceCall]_vars


(***************************************************************************)
(* SpecFrames: the frames of Spec, the caller keeping the identifier and   *)
(* the payload of the frame it passed last.                                *)
(***************************************************************************)
FeedFrame ==
    /\ \E t \in Traffic :
          /\ ProcessFrameCall(t[1], t[2], now)
          /\ drv' = [phase |-> "fed", can_id |-> t[1], payload |-> t[2]]
    /\ UNCHANGED now

SpecFrames == Init /\ [][FeedFrame]_vars


(***************************************************************************)
(* SpecStorage: a PiecesStorage on its own, under any sequence of push,    *)
(* push_after and remove_all, the indices being any the Assembler may      *)
(* hold, stale ones included.  drv keeps the call made last, the storage   *)
(* before it and what it returned.                                         *)
(***************************************************************************)
PieceData == {Zeros(MTU - 1), [i \in 1..(MTU - 1) |-> FillByte]}

StorageCall(op, data, idx, before, ok, ret) ==
    [phase |-> "storage", op |-> op, data |-> data, idx |-> idx,
     before |-> before, ok |-> ok, ret |-> ret]

InitStorage ==
    /\ transfers = AssemblerNew.transfers
    /\ storage = StorageNew
    /\ latest_sequence_number = AssemblerNew.latest_sequence_number
    /\ panicked = FALSE
    /\ now = 0
    /\ last = NoCall
    /\ drv = StorageCall("new", <<>>, 0, StorageNew, TRUE, 0)

\* storage.push(data)
PushCall ==
    /\ ~panicked
    /\ \E data \in PieceData :
          \E r \in {StoragePush(storage, data)} :
             /\ storage' = r.st
             /\ drv' = StorageCall("push", data, 0, storage, r.ok, r.idx)
    /\ UNCHANGED <<transfers, latest_sequence_number, panicked, now, last>>

\* storage.push_after(data, after_piece_idx)
PushAfterCall ==
    /\ ~panicked
    /\ \E data \in PieceData, after_piece_idx \in PieceIdxs :
          \E r \in {StoragePushAfter(storage, data, after_piece_idx)} :
             /\ storage' = r.st
             /\ drv' = StorageCall("push_after", data, after_piece_idx,
                                   storage, r.ok, r.idx)
    /\ UNCHANGED <<transfers, latest_sequence_number, panicked, now, last>>

\* storage.remove_all(first_piece_idx).  Decrementing `used` at 0 panics in
\* a build with overflow checks and wraps in one without.
RemoveAllCall ==
    /\ ~panicked
    /\ \E first_piece_idx \in PieceIdxs, overflow_checks \in BOOLEAN :
          \E r \in {StorageRemoveAll(storage, first_piece_idx)} :
             IF r.underflow /\ overflow_checks
             THEN /\ Panic("remove_all", None, "")
                  /\ drv' = StorageCall("remove_all", <<>>, first_piece_idx,
                                        storage, FALSE, 0)
             ELSE /\ r.underflow \/ ~overflow_checks
                  /\ UsedDrift(r.st) <= MaxUsedDrift
                  /\ storage' = r.st
                  /\ drv' = StorageCall("remove_all", <<>>, first_piece_idx,
                                        storage, TRUE, r.removed)
                  /\ UNCHANGED <<transfers, latest_sequence_number,
                                 panicked, last>>
    /\ UNCHANGED now

StorageNext == PushCall \/ PushAfterCall \/ RemoveAllCall

SpecStorage == InitStorage /\ [][StorageNext]_vars


(***************************************************************************)
(* SpecTwins: two Assemblers fed the same frames but for the transfer id   *)
(* in the tail byte.  The first is the state of the module; the second,    *)
(* the twin, is kept in drv with what its call returned.  latest keeps,    *)
(* for each source, the two transfer ids of its latest frame that carried  *)
(* a tail byte.                                                            *)
(***************************************************************************)
TwinSources == {1}

TwinLens == {1, MTU - 1, MTU}

TwinKinds == {"SingleFrame", "MultiFrame", "MiddleT0", "MiddleT1",
              "EndT0", "EndT1", "MultiFrameV0"}

InitTwins ==
    /\ transfers = AssemblerNew.transfers
    /\ storage = AssemblerNew.storage
    /\ latest_sequence_number = AssemblerNew.latest_sequence_number
    /\ panicked = FALSE
    /\ now = 0
    /\ last = NoCall
    /\ drv = [phase |-> "twins", twin |-> AssemblerNew, died |-> FALSE,
              outcome |-> "", ok |-> TRUE, source |-> 0,
              before |-> "", latest |-> [s \in TwinSources |-> None]]

\* process_frame(id, payload, now) on both, the payloads being equal up to
\* the transfer id
TwinCall(source, payload, twin_payload, ids) ==
    LET id == NewMessageKind(source, 8, FALSE, Nominal)
        i == IndexOfKey(transfers, KeyOf(id))
    IN  \E r \in {ProcessFrame(drv.twin, id, twin_payload, now)} :
           /\ ProcessFrameCall(id, payload, now)
           /\ drv' = [phase   |-> "twins",
                      died    |-> r.panic \/ (r.underflow /\ panicked'),
                      twin    |-> IF r.panic \/ (r.underflow /\ panicked')
                                  THEN AssemblerNew ELSE r.a,
                      outcome |-> r.outcome,
                      ok      |-> r.ok,
                      source  |-> source,
                      before  |-> IF i = 0 THEN "Empty" ELSE transfers[i].state,
                      latest  |-> IF ids = None THEN drv.latest
                                  ELSE [drv.latest EXCEPT ![source] = ids]]
           /\ UNCHANGED now

\* A frame without a tail byte
TwinEmptyFrame == \E source \in TwinSources : TwinCall(source, <<>>, <<>>, None)

\* A frame with a tail byte, the transfer ids chosen apart
TwinFrame ==
    \E source \in TwinSources, len \in TwinLens, kind \in TwinKinds,
       transfer_id \in TransferIds, twin_id \in TransferIds :
          TwinCall(source, MkFrame(len, kind, transfer_id),
                   MkFrame(len, kind, twin_id), Some(<<transfer_id, twin_id>>))

TwinsNext == TwinEmptyFrame \/ TwinFrame

SpecTwins == InitTwins /\ [][TwinsNext]_vars


(***************************************************************************)
(* SpecFraming: a payload is sliced and each frame, as it is emitted, is   *)
(* given to the state machine of a session that is in one of the idle      *)
(* states, by way of the (payload_kind, tail_byte) pair that               *)
(* drive_state_machine derives from it.  drv keeps the lengths of the      *)
(* frames and the outputs of the machine.                                  *)
(***************************************************************************)
InitFraming ==
    /\ transfers = AssemblerNew.transfers
    /\ storage = AssemblerNew.storage
    /\ latest_sequence_number = AssemblerNew.latest_sequence_number
    /\ panicked = FALSE
    /\ now = 0
    /\ last = NoCall
    /\ drv \in {[phase       |-> "unframed",
                 payload     |-> payload,
                 transfer_id |-> transfer_id,
                 slicer      |-> None,
                 start       |-> state,
                 tm          |-> [state |-> state, transfer_id |-> None],
                 lens        |-> <<>>,
                 outputs     |-> <<>>] :
                payload \in SlicePayloads, transfer_id \in TransferIds,
                state \in Idle}

\* Slicer::new(&payload, transfer_id).frames_owned()
FramingStart ==
    /\ drv.phase = "unframed"
    /\ drv' = [drv EXCEPT !.phase = "framing",
                          !.slicer = SlicerNew(drv.payload, drv.transfer_id)]
    /\ UNCHANGED <<asm, panicked, now, last>>

\* slicer.next() yields a frame, and the machine is advanced with it
FramingFrame ==
    /\ ~panicked
    /\ drv.phase = "framing"
    /\ \E r \in {OwnedSlicerNext(drv.slicer)} :
          /\ ~r.panic
          /\ r.item # None
          /\ LET frame == Unwrap(r.item)
                 adv == Advance(drv.tm, PayloadKindOf(frame), TailByteOf(frame))
             IN  drv' = [drv EXCEPT !.slicer = r.sl,
                                    !.tm = adv.tm,
                                    !.lens = Append(drv.lens, Len(frame)),
                                    !.outputs = Append(drv.outputs, adv.output)]
    /\ UNCHANGED <<asm, panicked, now, last>>

\* slicer.next() returns None
FramingEnd ==
    /\ ~panicked
    /\ drv.phase = "framing"
    /\ \E r \in {OwnedSlicerNext(drv.slicer)} :
          /\ ~r.panic
          /\ r.item = None
          /\ drv' = [drv EXCEPT !.slicer = r.sl, !.phase = "framed"]
    /\ UNCHANGED <<asm, panicked, now, last>>

\* slicer.next() reaches unreachable!()
FramingPanic ==
    /\ ~panicked
    /\ drv.phase = "framing"
    /\ OwnedSlicerNext(drv.slicer).panic
    /\ Panic("slice", None, "")
    /\ UNCHANGED <<now, drv>>

FramingNext == FramingStart \/ FramingFrame \/ FramingEnd \/ FramingPanic

SpecFraming == InitFraming /\ [][FramingNext]_vars


(***************************************************************************)
(* Vocabulary of the properties.                                           *)
(***************************************************************************)
\* The slots PiecesStorage::traverse visits from a first piece
RECURSIVE ChainFrom(_, _, _)
ChainFrom(items, idx, fuel) ==
    IF fuel = 0 \/ ~items[idx].filled THEN {}
    ELSE IF items[idx].next = idx THEN {idx}
    ELSE {idx} \cup ChainFrom(items, items[idx].next, fuel - 1)

ChainOf(items, first_piece_idx) ==
    IF first_piece_idx = None THEN {}
    ELSE ChainFrom(items, Unwrap(first_piece_idx), MAX_PIECES)

\* The last call was process_frame and it returned
Processed(call) == call.op = "process_frame" /\ IsSome(call.key)

ProcessedKey(call) == Unwrap(call.key)

\* The last call was pop and it returned a transfer
Popped(call) == call.op = "pop" /\ IsSome(call.ret)

PoppedKey(call) == KeyOf(Unwrap(call.ret).can_id)

PoppedPriority(call) == Unwrap(call.ret).can_id.priority

(***************************************************************************)
(* The session table.                                                      *)
(***************************************************************************)
\* C10: the table never holds more than MAX_TRANSFERS sessions, and a
\* process_frame whose key is absent while the table holds MAX_TRANSFERS
\* sessions drops the frame: the table, the storage and
\* latest_sequence_number are what they were before the call.
C10_TableBound ==
    [][ /\ Len(transfers') <= MAX_TRANSFERS
        /\ (/\ Processed(last')
            /\ IndexOfKey(transfers, ProcessedKey(last')) = 0
            /\ Len(transfers) >= MAX_TRANSFERS)
           => (/\ transfers' = transfers
               /\ storage' = storage
               /\ latest_sequence_number' = latest_sequence_number
               /\ last'.outcome = "TableFull") ]_vars

\* C10 happens: the table is full and the frame of an absent key was dropped.
C10_Witness ==
    /\ last.op = "process_frame"
    /\ last.outcome = "TableFull"
    /\ Len(transfers) = MAX_TRANSFERS
    /\ IndexOfKey(transfers, Unwrap(last.key)) = 0

(***************************************************************************)
(* Sessions do not disturb one another.                                    *)
(***************************************************************************)
\* C6: a process_frame for key K leaves every session of another key as it
\* was, and every piece of those sessions' chains as it was.
C6_Isolation ==
    [][ Processed(last') =>
          \A i \in 1..Len(transfers) :
             transfers[i].key # ProcessedKey(last') =>
                /\ i <= Len(transfers')
                /\ transfers'[i] = transfers[i]
                /\ \A p \in ChainOf(storage.items, transfers[i].first_piece_idx) :
                      storage'.items[p] = storage.items[p] ]_vars

(***************************************************************************)
(* Reading transfers out.                                                  *)
(***************************************************************************)
\* C4: after a pop that returned a transfer its session is no longer in the
\* table, and the pop before it did not return the same transfer.
C4_PopRemoves ==
    Popped(last) =>
       /\ IndexOfKey(transfers, PoppedKey(last)) = 0
       /\ IsSome(last.prev) => PoppedKey([ret |-> last.prev]) # PoppedKey(last)

\* The session a pop returned is a Done session of the table and no Done
\* session of the table has a higher priority.
PopReturnsMaxPriority ==
    Popped(last) =>
       /\ \E i \in 1..Len(transfers) :
             /\ transfers[i].key = PoppedKey(last)
             /\ transfers[i].state = "Done"
             /\ transfers[i].priority = PoppedPriority(last)
       /\ \A i \in 1..Len(transfers) :
             transfers[i].state = "Done"
             => ~PriorityGt(transfers[i].priority, PoppedPriority(last))

\* C2: a pop returns a Done session of the highest priority present, and
\* successive pops return the completed transfers one after the other in
\* the order of their priorities, highest first.
C2_PriorityReadout ==
    /\ PopReturnsMaxPriority
    /\ (Popped(last) /\ IsSome(last.prev)) =>
          /\ PoppedKey([ret |-> last.prev]) # PoppedKey(last)
          /\ ~PriorityGt(PoppedPriority(last), PoppedPriority([ret |-> last.prev]))

\* C3: among the Done sessions of the priority pop returns, pop returns the
\* oldest: its sequence number minus any other's is negative as a wrapping
\* i16.
C3_FifoAtEqualPriority ==
    Popped(last) =>
       \A i, j \in 1..Len(transfers) :
          (/\ transfers[i].key = PoppedKey(last)
           /\ j # i
           /\ transfers[j].state = "Done"
           /\ transfers[j].priority = transfers[i].priority)
          => WrappingSub(transfers[i].sequence_number,
                         transfers[j].sequence_number) < 0

(***************************************************************************)
(* Slicer and Assembler together.                                          *)
(***************************************************************************)
\* The sender has fed one whole transfer, unharmed, to a fresh Assembler
FedOne == drv.phase = "idle" /\ drv.sent = 1 /\ drv.flip = None

\* C1: slicing a payload, feeding the frames in order to a fresh Assembler
\* under a CanId and popping once returns that payload under that CanId;
\* nothing on the way panics.
C1_RoundTrip ==
    /\ (drv.phase \in {"idle", "sending"} /\ drv.flip = None) => ~panicked
    /\ (FedOne /\ last.op = "pop") =>
          /\ IsSome(last.ret)
          /\ Unwrap(last.ret).payload = drv.payload
          /\ Unwrap(last.ret).can_id = drv.can_id

\* The session of the sender
SenderSession == transfers[IndexOfKey(transfers, KeyOf(drv.can_id))]

\* C5: once the End frame of a transfer whose CRC bytes had one bit flipped
\* has been processed, the session's chain is wiped and no pop returns the
\* transfer.
C5_CrcValidation ==
    (/\ ~panicked
     /\ drv.phase = "idle" /\ drv.sent = 1 /\ IsSome(drv.flip)
     /\ IndexOfKey(transfers, KeyOf(drv.can_id)) # 0)
    => /\ SenderSession.state # "Done"
       /\ ChainOf(storage.items, SenderSession.first_piece_idx) = {}
       /\ FilledCount(storage.items) = 0
       /\ ~Popped(last)

\* C7: whatever frames came before, the session is Done or Failure after
\* one whole well-formed transfer, and after a second one that found room
\* in the pool it is Done with a chain of exactly the frames of that
\* second transfer.
C7_OneShotRecovery ==
    (~panicked /\ drv.phase = "idle" /\ drv.sent >= 1) =>
       /\ SenderSession.state \in {"Done", "Failure"}
       /\ (drv.sent = 2 /\ ~drv.err) =>
             /\ SenderSession.state = "Done"
             /\ Cardinality(ChainOf(storage.items, SenderSession.first_piece_idx))
                   = FrameCount(Len(drv.payload), MTU)

(***************************************************************************)
(* Timeouts.                                                               *)
(***************************************************************************)
TimedOut(t, time_now) ==
    time_now - t.last_changed_timestamp > TRANSFER_LIFETIME

\* C8: when a process_frame runs the sweep, the sweep leaves every session
\* that is still assembling and has timed out in Failure with every piece
\* of its chain Empty, and leaves every other piece of the pool as it was.
C8_TimeoutEviction ==
    [][ (Processed(last') /\ StorageLen(storage) = MAX_PIECES) =>
          \E after \in {RemoveOutdatedTransfers(Cur, now)} :
             LET evicted == {i \in 1..Len(transfers) :
                               /\ transfers[i].state \in Assembling
                               /\ TimedOut(transfers[i], now)}
                 freed == UNION {ChainOf(storage.items, transfers[i].first_piece_idx) :
                                   i \in evicted}
             IN  /\ \A i \in evicted : after.transfers[i].state = "Failure"
                 /\ \A p \in PieceIdxs :
                       IF p \in freed THEN ~after.storage.items[p].filled
                       ELSE after.storage.items[p] = storage.items[p] ]_vars

\* The sweep of the earlier Assembler, run in a state where the first
\* session is still assembling and has timed out: the session is in Failure
\* and exactly the pieces of its chain are Empty.
EarlierSweepFreesChain ==
    (/\ ~panicked
     /\ Len(transfers) >= 1
     /\ transfers[1].state \in Assembling
     /\ TimedOut(transfers[1], now))
    => \E after \in {EarlierRemoveOutdatedTransfers(Cur, now)} :
          LET chain == ChainOf(storage.items, transfers[1].first_piece_idx)
          IN  /\ after.transfers[1].state = "Failure"
              /\ \A p \in PieceIdxs :
                    IF p \in chain THEN ~after.storage.items[p].filled
                    ELSE after.storage.items[p] = storage.items[p]

NewcomerKey == KeyOf(NewcomerId)

\* The table is full of sessions that have all timed out
FullOfTimedOut ==
    /\ ~panicked
    /\ Len(transfers) = MAX_TRANSFERS
    /\ \A i \in 1..Len(transfers) : TimedOut(transfers[i], now)
    /\ IndexOfKey(transfers, NewcomerKey) = 0

\* C9: once the table is full of sessions that have all timed out, a
\* source whose frames keep arriving is eventually given a session.
C9_SessionLifecycle ==
    [](FullOfTimedOut => <>(IndexOfKey(transfers, NewcomerKey) # 0))

(***************************************************************************)
(* The Slicer.                                                             *)
(***************************************************************************)
\* The Slicer is at work on drv.payload, or has finished
Slicing == drv.phase \in {"slicing", "sliced"}

\* The bytes of the frames in order, the last byte of each frame left out
RECURSIVE StreamOf(_)
StreamOf(frames) ==
    IF frames = <<>> THEN <<>>
    ELSE SubSeq(Head(frames), 1, Len(Head(frames)) - 1) \o StreamOf(Tail(frames))

CeilDiv(a, b) == (a + b - 1) \div b

\* C11: for every payload length the frame iterator yields
\* frame_count(len) frames and then None without reaching an unreachable
\* branch, and for len < MTU the one frame is the payload followed by the
\* SingleFrame tail byte.
C11_SlicerTotal ==
    Slicing =>
       /\ ~panicked
       /\ Len(drv.frames) <= FrameCount(Len(drv.payload), MTU)
       /\ drv.phase = "sliced" =>
             /\ Len(drv.frames) = FrameCount(Len(drv.payload), MTU)
             /\ Len(drv.payload) < MTU =>
                   drv.frames = <<drv.payload \o
                                  <<AsByte([kind |-> "SingleFrame",
                                            id |-> drv.transfer_id])>> >>

\* C12: for a payload of MTU bytes or more every frame but the last is MTU
\* bytes long, the last is 2 to MTU bytes long, and the frames without
\* their tail bytes, joined, are the payload followed by the high and then
\* the low byte of its CRC-16/CCITT-FALSE.
C12_MultiFrameLayout ==
    (Slicing /\ drv.phase = "sliced" /\ Len(drv.payload) >= MTU) =>
       LET n == Len(drv.frames)
           crc == Crc16(drv.payload)
       IN  /\ n >= 2
           /\ \A i \in 1..(n - 1) : Len(drv.frames[i]) = MTU
           /\ Len(drv.frames[n]) \in 2..MTU
           /\ StreamOf(drv.frames) = drv.payload \o <<crc \div 256, crc % 256>>

\* C12 happens: a 13-byte payload is sliced, its CRC split over two frames.
C12_Witness ==
    /\ Slicing /\ drv.phase = "sliced"
    /\ Len(drv.payload) = 2 * MTU - 3
    /\ Len(drv.frames) = 3
    /\ Len(drv.frames[3]) = 2

\* C13: the frame count of the Slicer is 1 below MTU bytes of payload and
\* the ceiling of (len + 2) / (MTU - 1) from there on: with MTU = 8 it is 1
\* up to 7 bytes, 2 up to 12, 3 up to 19 and 4 up to 26.
C13_FrameCount ==
    Slicing =>
       LET len == Len(drv.payload)
           n == drv.slicer.tail_bytes.frame_count
       IN  /\ n = (IF len < MTU THEN 1 ELSE CeilDiv(len + 2, MTU - 1))
           /\ MTU = 8 =>
                 /\ len \in 0..7 => n = 1
                 /\ len \in 8..12 => n = 2
                 /\ len \in 13..19 => n = 3
                 /\ len \in 20..26 => n = 4

\* C13 happens: the Slicer was made for 26 bytes and counts 4 frames.
C13_Witness ==
    /\ Slicing
    /\ Len(drv.payload) = 26
    /\ drv.slicer.tail_bytes.frame_count = 4


(***************************************************************************)
(* The tail-byte generator.                                                *)
(***************************************************************************)
\* The generator is at work, or has returned None
Tailing == drv.phase \in {"tail", "tailed"}

\* The start, end and toggle bits and the transfer id of a tail byte, read
\* from the byte
StartBit(tb) == Bit(AsByte(tb), 7)

EndBit(tb) == Bit(AsByte(tb), 6)

ToggleBit(tb) == Bit(AsByte(tb), 5)

IdBits(tb) == AsByte(tb) % 32

\* C14: for a frame count N > 1 the generator yields N tail bytes and then
\* None, all with the given id: frame 0 has start 1, end 0, toggle 1, frame
\* N-1 has start 0, end 1, the frames between have start 0, end 0, and the
\* toggle of frame i is 1 for even i and 0 for odd i.
C14_MultiFrameTailBytes ==
    (Tailing /\ drv.frame_count > 1) =>
       /\ Len(drv.out) <= drv.frame_count
       /\ drv.phase = "tailed" => Len(drv.out) = drv.frame_count
       /\ \A i \in 1..Len(drv.out) :
             /\ IdBits(drv.out[i]) = drv.transfer_id
             /\ StartBit(drv.out[i]) = (IF i = 1 THEN 1 ELSE 0)
             /\ EndBit(drv.out[i]) = (IF i = drv.frame_count THEN 1 ELSE 0)
             /\ ToggleBit(drv.out[i]) = i % 2
             /\ i = 1 => drv.out[i].kind = "MultiFrame"

\* C14 happens: the generator has yielded all the tail bytes of a transfer
\* with two middle frames.
C14_Witness ==
    /\ Tailing /\ drv.phase = "tailed"
    /\ drv.frame_count = 4
    /\ Len(drv.out) = 4
    /\ drv.out[3].kind = "MiddleT1"

\* C15 as stated: for a frame count of 0 or 1 the generator yields one
\* SingleFrame tail byte with the given id and then None.
C15_SingleFrameTailByte ==
    (Tailing /\ drv.phase = "tailed" /\ drv.frame_count <= 1) =>
       drv.out = <<[kind |-> "SingleFrame", id |-> drv.transfer_id]>>

\* C15 amended: for a frame count of 1 the generator yields one SingleFrame
\* tail byte (start, end and toggle all 1) with the given id and then None;
\* for a frame count of 0 it yields None at once.
C15_SingleFrameTailByteAmended ==
    (Tailing /\ drv.frame_count <= 1) =>
       /\ Len(drv.out) <= drv.frame_count
       /\ drv.phase = "tailed" => Len(drv.out) = drv.frame_count
       /\ \A i \in 1..Len(drv.out) :
             /\ drv.out[i].kind = "SingleFrame"
             /\ StartBit(drv.out[i]) = 1
             /\ EndBit(drv.out[i]) = 1
             /\ ToggleBit(drv.out[i]) = 1
             /\ IdBits(drv.out[i]) = drv.transfer_id

\* C15 happens: the generator made for one frame has yielded its tail byte
\* and returned None.
C15_Witness ==
    /\ Tailing /\ drv.phase = "tailed"
    /\ drv.frame_count = 1
    /\ Len(drv.out) = 1


(***************************************************************************)
(* The identifier codec.                                                   *)
(***************************************************************************)
\* Bit k of a u32, as a number
BitOf(value, k) == IF U32Bit(value, k) THEN 1 ELSE 0

\* Bits lo..hi of a u32, bit lo being the lowest
RECURSIVE BitsOf(_, _, _)
BitsOf(value, lo, hi) ==
    IF hi < lo THEN 0
    ELSE BitOf(value, lo) + 2 * BitsOf(value, lo + 1, hi)

\* The id the bit layout gives for a value
LayoutId(value) ==
    [source_node_id |-> BitsOf(value, 0, 6),
     transfer_kind  |->
        IF BitOf(value, 25) = 1
        THEN [tag |-> "Service",
              destination_node_id |-> BitsOf(value, 7, 13),
              service_id |-> BitsOf(value, 14, 22),
              is_request |-> BitOf(value, 24) = 1]
        ELSE [tag |-> "Message",
              subject_id |-> BitsOf(value, 8, 20),
              is_anonymous |-> BitOf(value, 24) = 1],
     priority       |-> BitsOf(value, 26, 28)]

\* C16: try_from answers the high-bits error exactly when one of bits
\* 29..31 is set; otherwise the reserved-bit error exactly when bit 23 is
\* set, or bit 25 is clear and bit 7 is set; otherwise Ok of the id the bit
\* layout gives.
C16_TryFrom ==
    drv.phase = "decoded" =>
       LET v == drv.value
           r == drv.result
           high == BitsOf(v, 29, 31) # 0
           reserved == BitOf(v, 23) = 1 \/ (BitOf(v, 25) = 0 /\ BitOf(v, 7) = 1)
       IN  /\ (r = Err("NoneZeroHighBits")) <=> high
           /\ (r = Err("WrongReservedBit")) <=> (~high /\ reserved)
           /\ (~high /\ ~reserved) => r = Ok(LayoutId(v))

\* C16 happens: a message id with bit 7 set and no other fault was refused.
C16_Witness ==
    /\ drv.phase = "decoded"
    /\ BitsOf(drv.value, 29, 31) = 0
    /\ BitOf(drv.value, 23) = 0
    /\ BitOf(drv.value, 25) = 0
    /\ BitOf(drv.value, 7) = 1
    /\ drv.result = Err("WrongReservedBit")

\* C17: an id with in-range fields, encoded and decoded, comes back as Ok
\* of the same id, and its encoding has bits 29..31 and bit 23 clear.
C17_IdRoundTrip ==
    /\ drv.phase \in {"encoded", "returned"} =>
          /\ BitsOf(drv.value, 29, 31) = 0
          /\ BitOf(drv.value, 23) = 0
    /\ drv.phase = "returned" => drv.result = Ok(drv.id)

\* C17 happens: a service id with the largest service id came back.
C17_Witness ==
    /\ drv.phase = "returned"
    /\ drv.id.transfer_kind.tag = "Service"
    /\ drv.id.transfer_kind.service_id = 511
    /\ drv.result.ok


\* C18: the comparison of priorities is a total order inverted with respect
\* to the numeric value: p > q exactly when numeric(p) < numeric(q), p < q
\* exactly when numeric(p) > numeric(q), equal only to itself, transitive;
\* Exceptional is above every other priority, Optional below every other,
\* and Low is below High.
C18_PriorityOrder ==
    drv.phase = "compared" =>
       LET p == drv.p
           q == drv.q
           gt(a, b) == PriorityCmp(a, b) = "Greater"
       IN  /\ (drv.ordering = "Greater") <=> (p < q)
           /\ (drv.ordering = "Less") <=> (p > q)
           /\ (drv.ordering = "Equal") <=> (p = q)
           /\ \A r \in Exceptional..Optional :
                 (drv.ordering = "Greater" /\ gt(q, r)) => gt(p, r)
           /\ (p = Exceptional /\ q # Exceptional) => drv.ordering = "Greater"
           /\ (p = Optional /\ q # Optional) => drv.ordering = "Less"
           /\ (p = Low /\ q = High) => drv.ordering = "Less"

\* C18 happens: Low was compared with High and found less.
C18_Witness ==
    /\ drv.phase = "compared"
    /\ drv.p = Low
    /\ drv.q = High
    /\ drv.ordering = "Less"


\* One row of the transition table: the cells under Empty, AssemblingT1,
\* AssemblingT0, Done and Failure.
TableRow(empty, t1, t0, done, failure) ==
    [Empty |-> empty, AssemblingT1 |-> t1, AssemblingT0 |-> t0,
     Done |-> done, Failure |-> failure]

\* The transition table of the transfer state machine, row by row; the two
\* cells that depend on the payload kind are functions of it.
TransitionTable(payload_kind) ==
    LET drop == <<"Failure", "Drop">>
        ignore == <<"Failure", "Ignore">>
        middle(next) == IF payload_kind = "ExactlyMTU"
                        THEN <<next, "Push">> ELSE drop
        end == IF payload_kind \in {"LessThanMTU", "ExactlyMTU"}
               THEN <<"Done", "CheckCrcAndPush">> ELSE drop
    IN  [None          |-> TableRow(ignore, drop, drop, <<"Done", "Ignore">>,
                                    ignore),
         SingleFrame   |-> TableRow(<<"Done", "Push">>, drop, drop,
                                    <<"Done", "Push">>, <<"Done", "Push">>),
         MultiFrame    |-> TableRow(<<"AssemblingT1", "Push">>, drop, drop,
                                    <<"AssemblingT1", "Push">>,
                                    <<"AssemblingT1", "Push">>),
         MiddleT0      |-> TableRow(drop, middle("AssemblingT0"), drop, drop,
                                    drop),
         EndT0         |-> TableRow(drop, end, drop, drop, drop),
         MiddleT1      |-> TableRow(drop, drop, middle("AssemblingT1"), drop,
                                    drop),
         EndT1         |-> TableRow(drop, drop, end, drop, drop),
         SingleFrameV0 |-> TableRow(ignore, ignore, ignore, ignore, ignore),
         MultiFrameV0  |-> TableRow(ignore, ignore, ignore, ignore, ignore)]

\* The row a tail byte selects
TableRowOf(tail_byte) ==
    IF tail_byte = None THEN "None" ELSE Unwrap(tail_byte).kind

\* C19: for every state, every tail byte (absent or of any of the 8 kinds)
\* and every payload kind, advance moves to the next state and returns the
\* output that the transition table gives.
C19_TransitionTable ==
    drv.phase = "advanced" =>
        <<drv.result.tm.state, drv.result.output>>
            = TransitionTable(drv.payload_kind)[TableRowOf(drv.tail_byte)]
                                               [drv.tm.state]

\* C19 happens: a full middle frame with toggle 0 was taken after a frame
\* with toggle 1.
C19_Witness ==
    /\ drv.phase = "advanced"
    /\ drv.tm.state = "AssemblingT1"
    /\ drv.payload_kind = "ExactlyMTU"
    /\ TableRowOf(drv.tail_byte) = "MiddleT0"
    /\ drv.result.tm.state = "AssemblingT0"
    /\ drv.result.output = "Push"


\* C20: after any sequence of process_frame and pop calls, hence of push,
\* push_after and remove_all on the storage, the counter `used` equals the
\* number of Filled slots.
C20_UsedCountsFilled ==
    ~panicked => storage.used = FilledCount(storage.items)


(***************************************************************************)
(* The chains of pieces.                                                   *)
(***************************************************************************)
\* The slots of the chain of the i-th session of the table
SessionChain(i) == ChainOf(storage.items, transfers[i].first_piece_idx)

\* C21: after any sequence of process_frame and pop calls no slot belongs
\* to the chains of two different sessions: the sets of slots reached by
\* following the next links from the first_piece_idx of two distinct
\* sessions are disjoint.
C21_ChainsDisjoint ==
    ~panicked =>
       \A i, j \in 1..Len(transfers) :
          i # j => SessionChain(i) \cap SessionChain(j) = {}

\* C22: after any sequence of process_frame and pop calls every Filled slot
\* is reached from the first_piece_idx of exactly one session of the table.
C22_NoLeakedPieces ==
    ~panicked =>
       \A p \in PieceIdxs :
          storage.items[p].filled =>
             Cardinality({i \in 1..Len(transfers) : p \in SessionChain(i)}) = 1


(***************************************************************************)
(* What a frame does to the storage and to its session.                    *)
(***************************************************************************)
\* The step is a call of process_frame that returned
Returned == Processed(last') /\ ~panicked'

\* The step is the call process_frame(id, payload, now), and it returned
IsProcessFrame(id, payload) ==
    /\ Returned
    /\ ProcessedKey(last') = KeyOf(id)
    /\ \E r \in {ProcessFrame(Cur, id, payload, now)} :
          /\ transfers' = r.a.transfers
          /\ storage' = r.a.storage
          /\ last'.outcome = r.outcome
          /\ last'.ok = r.ok

\* The session of the key of the last call, before and after the call
SessionBefore == transfers[IndexOfKey(transfers, ProcessedKey(last'))]

SessionAfter == transfers'[IndexOfKey(transfers', ProcessedKey(last'))]

\* The chain the session of the key had before the call; a session that
\* the call creates had none
ChainBefore ==
    IF IndexOfKey(transfers, ProcessedKey(last')) = 0 THEN {}
    ELSE ChainOf(storage.items, SessionBefore.first_piece_idx)

\* The frame's bytes without the tail byte, followed by zero bytes up to
\* MTU - 1
PaddedPayload(payload) ==
    [k \in 1..(MTU - 1) |-> IF k < Len(payload) THEN payload[k] ELSE 0]

\* C23: whenever process_frame stores a frame on output Push, the data of
\* the newly stored piece, the last of the session's chain, equals the
\* frame's bytes without the tail byte, followed by zero bytes up to MTU-1.
C23_StoredPayload ==
    [][ \A t \in Traffic :
          (IsProcessFrame(t[1], t[2]) /\ last'.outcome = "Push" /\ last'.ok)
          => storage'.items[Unwrap(SessionAfter.last_piece_idx)].data
                = PaddedPayload(t[2]) ]_vars


\* C24: when the state machine outputs Drop for a session, every piece of
\* the chain the session had becomes Empty and both first_piece_idx and
\* last_piece_idx become None.
C24_DropClearsSession ==
    [][ (Returned /\ last'.outcome = "Drop") =>
          /\ \A p \in ChainBefore : ~storage'.items[p].filled
          /\ SessionAfter.first_piece_idx = None
          /\ SessionAfter.last_piece_idx = None ]_vars


\* C25: when a session in Done or Failure accepts a SingleFrame or
\* MultiFrame start, its chain afterwards is exactly the one piece that
\* holds the frame, and no other piece of its previous chain stays Filled.
C25_FreshStartResets ==
    [][ (/\ Returned
         /\ last'.outcome = "Push"
         /\ last'.ok
         /\ IndexOfKey(transfers, ProcessedKey(last')) # 0
         /\ SessionBefore.state \in {"Done", "Failure"})
        => \E new \in {Unwrap(SessionAfter.last_piece_idx)} :
              /\ ChainOf(storage'.items, SessionAfter.first_piece_idx) = {new}
              /\ \A p \in ChainBefore :
                    p # new => ~storage'.items[p].filled ]_vars


\* C26: while a session is in Failure, a frame for its key that is not
\* accepted as a start (output other than Push) leaves the session in
\* Failure and the piece storage, `used` included, as it was.
C26_FailureIgnoresFrames ==
    [][ (/\ Returned
         /\ IndexOfKey(transfers, ProcessedKey(last')) # 0
         /\ SessionBefore.state = "Failure"
         /\ last'.outcome # "Push")
        => /\ SessionAfter.state = "Failure"
           /\ storage' = storage ]_vars


C28_TimestampRefreshed ==
    [][ (Returned /\ IndexOfKey(transfers', ProcessedKey(last')) # 0)
        => SessionAfter.last_changed_timestamp = now ]_vars


\* The sessions a sweep changed: their entry in the table, or a piece of
\* their chain
SweptSessions(after) ==
    {i \in 1..Len(transfers) :
        \/ after.transfers[i] # transfers[i]
        \/ \E p \in SessionChain(i) : after.storage.items[p] # storage.items[p]}

C30_PoolRecovers ==
    [][ (/\ Returned
         /\ StorageLen(storage) = MAX_PIECES
         /\ \E i \in 1..Len(transfers) :
               TimedOut(transfers[i], now) /\ SessionChain(i) # {})
        => \E after \in {RemoveOutdatedTransfers(Cur, now)} :
              /\ FindEmptySlot(after.storage.items) # None
              /\ StorageLen(after.storage) < MAX_PIECES ]_vars


(***************************************************************************)
(* The fields of a session.                                                *)
(***************************************************************************)
\* C31: for every session of the table whose first_piece_idx is Some,
\* following the next links from first_piece_idx visits only Filled slots
\* and reaches last_piece_idx, and the next link of last_piece_idx is
\* itself.
C31_ChainReachesLast ==
    ~panicked =>
       \A i \in 1..Len(transfers) :
          IsSome(transfers[i].first_piece_idx) =>
             /\ Unwrap(transfers[i].first_piece_idx) \in SessionChain(i)
             /\ \A p \in SessionChain(i) :
                   storage.items[storage.items[p].next].filled
             /\ IsSome(transfers[i].last_piece_idx)
             /\ Unwrap(transfers[i].last_piece_idx) \in SessionChain(i)
             /\ storage.items[Unwrap(transfers[i].last_piece_idx)].next
                   = Unwrap(transfers[i].last_piece_idx)


\* The last frame was passed to process_frame, which returned and did not
\* drop it at admission
Fed ==
    /\ ~panicked
    /\ drv.phase = "fed"
    /\ last.op = "process_frame"
    /\ last.outcome # "TableFull"

\* The session of the frame passed last
FedSession == transfers[IndexOfKey(transfers, KeyOf(drv.can_id))]

\* C32: a session's priority is the priority of the frame that created it,
\* and no later call changes it, whatever priority the later frames of the
\* same key carry.
C32_PriorityFixed ==
    [][ Returned =>
          /\ \A i \in 1..Len(transfers) :
                /\ transfers'[i].key = transfers[i].key
                /\ transfers'[i].priority = transfers[i].priority
          /\ (/\ IndexOfKey(transfers, ProcessedKey(last')) = 0
              /\ IndexOfKey(transfers', ProcessedKey(last')) # 0)
             => SessionAfter.priority = drv'.can_id.priority ]_vars

\* C32 happens: a session took a frame whose priority is not the session's.
C32_Witness ==
    /\ Fed
    /\ last.outcome = "Push"
    /\ FedSession.priority = Exceptional
    /\ drv.can_id.priority = Nominal


Stored == last'.outcome \in {"Push", "CheckCrcAndPush"} /\ last'.ok

\* C34: the last_piece_len of every session lies in 0..MTU-1; after a call
\* that stored the frame it is the number of payload bytes of that frame,
\* the tail byte excluded; a call that did not store the frame leaves it as
\* it was.
C34_LastPieceLen ==
    [][ (Returned /\ last'.outcome # "TableFull") =>
          /\ \A i \in 1..Len(transfers') :
                transfers'[i].last_piece_len \in 0..(MTU - 1)
          /\ Stored => SessionAfter.last_piece_len = Len(drv'.payload) - 1
          /\ (~Stored /\ IndexOfKey(transfers, ProcessedKey(last')) # 0)
             => SessionAfter.last_piece_len = SessionBefore.last_piece_len ]_vars


(***************************************************************************)
(* The storage on its own.                                                 *)
(***************************************************************************)
\* The last call on the storage was op, and it returned
StorageDid(op) == ~panicked /\ drv.phase = "storage" /\ drv.op = op

\* C35: remove_all called on the head of a chain of k pieces leaves the k
\* slots of the chain Empty, decrements `used` by k, returns k and changes
\* no slot outside the chain; called on an Empty slot it returns 0 and
\* changes nothing.
C35_RemoveAll ==
    StorageDid("remove_all") =>
       LET chain == ChainFrom(drv.before.items, drv.idx, MAX_PIECES)
       IN  /\ \A p \in PieceIdxs :
                 IF p \in chain THEN ~storage.items[p].filled
                 ELSE storage.items[p] = drv.before.items[p]
           /\ storage.used = (drv.before.used + 65536 - Cardinality(chain)) % 65536
           /\ drv.ret = Cardinality(chain)


\* C36: push fails exactly when used = MAX_PIECES and then leaves the
\* storage unchanged; otherwise it stores the data in the first Empty slot
\* as a terminator linked to itself, increments `used` by one and returns
\* the index of that slot.
C36_Push ==
    StorageDid("push") =>
       IF drv.before.used = MAX_PIECES
       THEN ~drv.ok /\ storage = drv.before
       ELSE /\ drv.ok
            /\ FindEmptySlot(drv.before.items) = Some(drv.ret)
            /\ storage.items =
                  [drv.before.items EXCEPT ![drv.ret] = PieceFilled(drv.data, drv.ret)]
            /\ storage.used = drv.before.used + 1


\* C37: a successful push_after(data, after_idx) leaves after_idx with its
\* data and a link to the new slot, the new slot with the data and a link
\* to itself, every other slot as it was and `used` one higher; when the
\* pool has no Empty slot or after_idx is Empty it returns an error and
\* leaves every slot and `used` as they were.
C37_PushAfter ==
    StorageDid("push_after") =>
       LET before == drv.before
       IN  IF FindEmptySlot(before.items) = None \/ ~before.items[drv.idx].filled
           THEN ~drv.ok /\ storage = before
           ELSE /\ drv.ok
                /\ drv.ret /= drv.idx
                /\ ~before.items[drv.ret].filled
                /\ storage.items[drv.idx] =
                      PieceFilled(before.items[drv.idx].data, drv.ret)
                /\ storage.items[drv.ret] = PieceFilled(drv.data, drv.ret)
                /\ \A p \in PieceIdxs \ {drv.idx, drv.ret} :
                      storage.items[p] = before.items[p]
                /\ storage.used = Inc16(before.used)

\* push_after put a piece with other data behind the terminator of a chain
\* while another slot was in use
C37_Witness ==
    /\ StorageDid("push_after")
    /\ drv.ok
    /\ drv.before.items[drv.idx].next = drv.idx
    /\ drv.before.items[drv.idx].data /= drv.data
    /\ \E p \in PieceIdxs \ {drv.idx, drv.ret} : storage.items[p].filled


\* A walk along the next links from idx comes to an Empty slot or to a
\* terminator within `steps` slots
RECURSIVE WalkEnds(_, _, _)
WalkEnds(items, idx, steps) ==
    IF ~items[idx].filled THEN TRUE
    ELSE IF steps = 0 THEN FALSE
    ELSE IF items[idx].next = idx THEN TRUE
    ELSE WalkEnds(items, items[idx].next, steps - 1)

\* C38: in every storage reached by push, push_after and remove_all the next
\* links form no cycle but the terminator's link to itself, so a walk from
\* any index ends within MAX_PIECES steps, and traverse reports
\* is_last = TRUE for the final piece it yields and for no other.
C38_WalksEnd ==
    ~panicked =>
       \A idx \in PieceIdxs :
          /\ WalkEnds(storage.items, idx, MAX_PIECES)
          /\ LET pieces == Traverse(storage.items, idx)
             IN  \A k \in 1..Len(pieces) : pieces[k][2] = (k = Len(pieces))


(***************************************************************************)
(* Transfer ids.                                                           *)
(***************************************************************************)
\* A session with its transfer id left out
WithoutTransferId(t) == [t EXCEPT !.transfer_id = None]

\* C39: two Assemblers fed frames that differ only in the transfer id of
\* the tail byte return the same, hold the same storage and the same
\* sessions but for transfer_id, thus a transfer id that changes within a
\* transfer is not rejected; and the transfer_id of a session is the id of
\* its latest frame that carried a tail byte.
C39_TransferIdIgnored ==
    drv.phase = "twins" =>
       /\ panicked = drv.died
       /\ ~panicked =>
             /\ storage = drv.twin.storage
             /\ latest_sequence_number = drv.twin.latest_sequence_number
             /\ last.outcome = drv.outcome
             /\ last.ok = drv.ok
             /\ Len(transfers) = Len(drv.twin.transfers)
             /\ \A i \in 1..Len(transfers) :
                   LET t == transfers[i]
                       twin == drv.twin.transfers[i]
                       ids == drv.latest[t.key.source]
                   IN  /\ WithoutTransferId(t) = WithoutTransferId(twin)
                       /\ IF ids = None
                          THEN t.transfer_id = None /\ twin.transfer_id = None
                          ELSE /\ t.transfer_id = Some(Unwrap(ids)[1])
                               /\ twin.transfer_id = Some(Unwrap(ids)[2])

\* A Middle frame was pushed in mid-transfer with a transfer id that is not
\* the one of the frame before, which the twin's frame kept
C39_Witness ==
    /\ drv.phase = "twins"
    /\ ~panicked
    /\ drv.before = "AssemblingT1"
    /\ last.outcome = "Push"
    /\ last.ok
    /\ \E i \in 1..Len(transfers) :
          /\ transfers[i].key.source = drv.source
          /\ transfers[i].state = "AssemblingT0"
          /\ transfers[i].transfer_id = Some(TransferIdMax)
          /\ drv.twin.transfers[i].transfer_id = Some(0)


(***************************************************************************)
(* Slicer and state machine.                                               *)
(***************************************************************************)
\* C40: the frames the Slicer emits for a payload, given in order to the
\* state machine of a session in Empty, Done or Failure, produce Push for
\* every frame but the last of a multi-frame transfer, which produces
\* CheckCrcAndPush, never Drop or Ignore, and leave the session in Done.
C40_FramingAgrees ==
    drv.phase \in {"framing", "framed"} =>
       LET n == Len(drv.outputs)
       IN  /\ \A k \in 1..(n - 1) : drv.outputs[k] = "Push"
           /\ n >= 1 => drv.outputs[n] \in {"Push", "CheckCrcAndPush"}
           /\ (drv.phase = "framed" /\ ~panicked /\ n >= 1) =>
                 /\ drv.outputs[n] = IF n = 1 THEN "Push" ELSE "CheckCrcAndPush"
                 /\ drv.tm.state = "Done"
                 /\ drv.tm.transfer_id = Some(drv.transfer_id)

\* A payload of three frames or more whose last frame holds the second CRC
\* byte and the tail byte only was taken whole by a session in Failure
C40_Witness ==
    /\ drv.phase = "framed"
    /\ ~panicked
    /\ drv.start = "Failure"
    /\ Len(drv.outputs) >= 3
    /\ drv.lens[Len(drv.lens)] = 2
    /\ drv.outputs[Len(drv.outputs)] = "CheckCrcAndPush"


=============================================================================
